---- MODULE Spec2Model ----
(***************************************************************************)
(* Verification model of the rustos-hv hypervisor core: the bin allocator  *)
(* (visor/src/allocator/bin.rs), the guest page tables                     *)
(* (visor/src/vm/pagetable.rs), the process loader and scheduler           *)
(* (visor/src/process), and the lower-EL trap handlers                     *)
(* (visor/src/traps.rs).                                                   *)
(*                                                                         *)
(* 64-bit machine words whose upper bits matter (sizes handed to           *)
(* size_to_bin, trap-frame registers, VTTBR) are kept as four 16-bit limbs *)
(* <<bits 15..0, bits 31..16, bits 47..32, bits 63..48>>, because the      *)
(* model checker's integers are 32 bits wide.  Addresses of the modelled   *)
(* memory regions stay below 2^31 and are plain integers.                  *)
(***************************************************************************)
EXTENDS Integers, Sequences, FiniteSets, TLC

VARIABLES
    heap,       \* the bin allocator: [bins, top_start, top_end]
    live,       \* allocations handed out and not yet freed: set of [ptr, size, align]
    ret,        \* what the last operation did (its inputs and result)
    trail,      \* the latest allocator calls, while they follow a test scenario
    halted,     \* TRUE once a panic!() or the debug shell stopped the hypervisor
    sizeIn,     \* input of size_to_bin (a 64-bit word)
    binOut,     \* result of size_to_bin, Unset before the call
    loads,      \* calls of Process::load so far
    loaded,     \* processes returned by Process::load and not yet queued
    processes,  \* Scheduler::processes, front first
    last_id,    \* Scheduler::last_id
    tf,         \* the trap frame handed to the exception handler
    mem,        \* bytes of the peripheral window touched by MMIO emulation
    lock,       \* the counter of DOUBLE_FAULT_LOCK
    stack,      \* the invocations of handle_exception not yet exited, outermost first
    cpu,        \* the registers of the core across a world switch
    state,      \* Process::state of the process that is polled
    irq,        \* IRQ: the table of interrupt handlers
    controller, \* the registers of the interrupt controller
    timer,      \* the registers of the system timer
    mutex,      \* a Mutex: its RawMutex and the guards that are alive
    boot,       \* kmain: where the boot sequence stands and what the singletons hold
    pagetable,  \* a PageTable: its L2 entries and the entries of its L3 tables
    sysreg      \* the system registers VMManager::setup reads and writes

vars == <<heap, live, ret, trail, halted, sizeIn, binOut, loads, loaded,
          processes, last_id, tf, mem, lock, stack, cpu, state, irq, controller, timer,
          mutex, boot, pagetable, sysreg>>

-----------------------------------------------------------------------------
(* 64-bit words as 16-bit limbs *)

Limb == 2 ^ 16

Zero64 == <<0, 0, 0, 0>>

\* a non-negative integer below 2^31 as a 64-bit word
U64(n) == <<n % Limb, n \div Limb, 0, 0>>

\* the integer value of a word below 2^31
ToInt(v) == v[1] + Limb * v[2]

FitsInt(v) == v[3] = 0 /\ v[4] = 0 /\ v[2] < 32768

\* v - 1 for v # 0 (borrow through the limbs)
Sub1(v) ==
    IF v[1] > 0 THEN <<v[1] - 1, v[2], v[3], v[4]>>
    ELSE IF v[2] > 0 THEN <<Limb - 1, v[2] - 1, v[3], v[4]>>
    ELSE IF v[3] > 0 THEN <<Limb - 1, Limb - 1, v[3] - 1, v[4]>>
    ELSE <<Limb - 1, Limb - 1, Limb - 1, v[4] - 1>>

\* v + 1 modulo 2^64 (carry through the limbs)
Add1(v) ==
    IF v[1] < Limb - 1 THEN <<v[1] + 1, v[2], v[3], v[4]>>
    ELSE IF v[2] < Limb - 1 THEN <<0, v[2] + 1, v[3], v[4]>>
    ELSE IF v[3] < Limb - 1 THEN <<0, 0, v[3] + 1, v[4]>>
    ELSE <<0, 0, 0, (v[4] + 1) % Limb>>

\* 1 << e as a 64-bit word, 0 <= e < 64
Shl1(e) == [i \in 1..4 |-> IF i = (e \div 16) + 1 THEN 2 ^ (e % 16) ELSE 0]

\* a >= b on 64-bit words
Geq64(a, b) ==
    IF a[4] # b[4] THEN a[4] > b[4]
    ELSE IF a[3] # b[3] THEN a[3] > b[3]
    ELSE IF a[2] # b[2] THEN a[2] > b[2]
    ELSE a[1] >= b[1]

RECURSIVE BitLen(_)
\* number of significant bits of x
BitLen(x) == IF x = 0 THEN 0 ELSE 1 + BitLen(x \div 2)

\* (v as u32).leading_zeros(): the cast keeps the low two limbs only
leading_zeros_u32(v) ==
    IF v[2] # 0 THEN 16 - BitLen(v[2]) ELSE 32 - BitLen(v[1])

saturating_sub(a, b) == IF a >= b THEN a - b ELSE 0

-----------------------------------------------------------------------------
(* allocator/bin.rs: size classes *)

\* what size_to_bin yields where the code panics
PANICKED == -1

\* binOut before size_to_bin ran
Unset == PANICKED - 1

NBINS == 30

LASTBIN == 29

size_to_bin(size) ==
    IF size = Zero64 THEN PANICKED
    ELSE saturating_sub(LASTBIN, leading_zeros_u32(Sub1(size)))

\* 1 << (bin + 3); Zero64 stands for the panic on bin > 29
bin_to_size(bin) ==
    IF bin > LASTBIN THEN Zero64
    ELSE Shl1(bin + 3)

\* bin_to_size(size_to_bin(n)) as used by alloc and dealloc, on a size below 2^31
BinSize(n) == ToInt(bin_to_size(size_to_bin(U64(n))))

-----------------------------------------------------------------------------
(* util.rs *)

\* addr & (align - 1) == 0, for align a power of two
is_aligned(addr, align) == addr % align = 0

\* addr & !(align - 1), for align a power of two
align_down(addr, align) == addr - (addr % align)

align_up(addr, align) == align_down(addr + (align - 1), align)

max(a, b) == IF a >= b THEN a ELSE b

-----------------------------------------------------------------------------
(* allocator/linked_list.rs: an intrusive singly linked list; the head is  *)
(* element 1 of the sequence.                                              *)

\* LinkedList::push: the new node becomes the head
push(list, ptr) == <<ptr>> \o list

\* Node::pop on the i-th node of an iteration: unlink it
pop(list, i) == SubSeq(list, 1, i - 1) \o SubSeq(list, i + 1, Len(list))

\* index of the first node satisfying P, 0 if none (Iterator::find, or the
\* first iteration of a for loop that returns)
FirstIndex(list, P(_)) ==
    IF \E i \in 1..Len(list) : P(list[i])
    THEN CHOOSE i \in 1..Len(list) : P(list[i]) /\ \A j \in 1..(i - 1) : ~P(list[j])
    ELSE 0

-----------------------------------------------------------------------------
(* allocator/bin.rs: the allocator.  An allocator value is                 *)
(* [bins, top_start, top_end, panicked]; panicked is set once an operation *)
(* has panicked, and nothing runs after that.                              *)

Allocator_new(start, end) ==
    [bins |-> [b \in 0..LASTBIN |-> <<>>], top_start |-> start, top_end |-> end,
     panicked |-> FALSE]

Panic(A) == [A EXCEPT !.panicked = TRUE]

RECURSIVE insert_chunk(_, _, _)
insert_chunk(A, ptr, bin) ==
    IF A.panicked THEN A
    ELSE IF bin > LASTBIN THEN Panic(A)
    ELSE
    LET size == ToInt(bin_to_size(bin))
        Adjacent(other) == ptr + size = other \/ other + size = ptr
        i == IF bin < LASTBIN THEN FirstIndex(A.bins[bin], Adjacent) ELSE 0
    IN  IF ptr + size = A.top_start
        THEN [A EXCEPT !.top_start = ptr]          \* coalesce into wilderness
        ELSE IF i # 0
        THEN LET other_ptr == A.bins[bin][i]
                 popped == [A EXCEPT !.bins[bin] = pop(@, i)]
             IN  IF ptr + size = other_ptr
                 THEN insert_chunk(popped, ptr, bin + 1)         \* merge right
                 ELSE insert_chunk(popped, other_ptr, bin + 1)   \* merge left
        ELSE [A EXCEPT !.bins[bin] = push(@, ptr)]

RECURSIVE rebin_loop(_, _, _, _)
\* the while loop of rebin: size is already shifted right by 3 + i
rebin_loop(A, ptr, size, i) ==
    IF size = 0 \/ A.panicked THEN A
    ELSE IF size % 2 # 0
    THEN rebin_loop(insert_chunk(A, ptr, i), ptr + ToInt(bin_to_size(i)), size \div 2, i + 1)
    ELSE rebin_loop(A, ptr, size \div 2, i + 1)

rebin(A, ptr, size) ==
    IF size = 0 \/ A.panicked THEN A
    ELSE IF ~is_aligned(ptr, 8) \/ size < 8 \/ ~is_aligned(size, 8) THEN Panic(A)
    ELSE rebin_loop(A, ptr, size \div 8, 0)

\* index of the last node satisfying P, 0 if none
LastIndex(list, P(_)) ==
    IF \E i \in 1..Len(list) : P(list[i])
    THEN CHOOSE i \in 1..Len(list) : P(list[i]) /\ \A j \in (i + 1)..Len(list) : ~P(list[j])
    ELSE 0

\* a scan that pops the first chunk of the first non-empty bin, aligned or not
RECURSIVE scan_bins_unaligned(_, _, _)
scan_bins_unaligned(A, from, align) ==
    IF from > LASTBIN THEN <<NBINS, 0>>
    ELSE IF A.bins[from] # <<>> THEN <<from, 1>>
    ELSE scan_bins_unaligned(A, from + 1, align)

\* a scan that pops the last aligned chunk of a bin instead of the first
RECURSIVE scan_bins_last(_, _, _)
scan_bins_last(A, from, align) ==
    IF from > LASTBIN THEN <<NBINS, 0>>
    ELSE LET Aligned(p) == is_aligned(p, align)
             i == LastIndex(A.bins[from], Aligned)
         IN  IF i # 0 THEN <<from, i>> ELSE scan_bins_last(A, from + 1, align)

\* the (bin, index) of the chunk the scan of alloc pops: the first bin
\* i >= from holding a chunk aligned to align, and the first such chunk in it
RECURSIVE scan_bins(_, _, _)
scan_bins(A, from, align) ==
    IF from > LASTBIN THEN <<NBINS, 0>>
    ELSE LET Aligned(p) == is_aligned(p, align)
             i == FirstIndex(A.bins[from], Aligned)
         IN  IF i # 0 THEN <<from, i>> ELSE scan_bins(A, from + 1, align)

NULL == 0

\* a hit that hands out the chunk and forgets the rest of it
take_bin_drop_rest(A, hit, size) ==
    [heap |-> [A EXCEPT !.bins[hit[1]] = pop(@, hit[2])],
     ptr |-> A.bins[hit[1]][hit[2]], bin |-> hit[1]]

\* alloc's hit in the bins: pop the chunk, keep its first size bytes, rebin the
\* rest.  [heap, ptr, bin]: bin is the bin popped, NBINS when the block did
\* not come from a bin
take_bin(A, hit, size) ==
    LET chunk == A.bins[hit[1]][hit[2]]
        popped == [A EXCEPT !.bins[hit[1]] = pop(@, hit[2])]
    IN  [heap |-> rebin(popped, chunk + size, ToInt(bin_to_size(hit[1])) - size),
         ptr |-> chunk, bin |-> hit[1]]

\* a carve that hands out the chunk but leaves top_start at its start
take_top_no_advance(A, size, align) ==
    LET chunk_start == align_up(A.top_start, align)
        gapped == rebin(A, A.top_start, chunk_start - A.top_start)
    IN  IF gapped.panicked THEN [heap |-> gapped, ptr |-> NULL, bin |-> NBINS]
        ELSE IF chunk_start + size > A.top_end
        THEN [heap |-> [gapped EXCEPT !.top_start = chunk_start],
              ptr |-> NULL, bin |-> NBINS]
        ELSE [heap |-> [gapped EXCEPT !.top_start = chunk_start],
              ptr |-> chunk_start, bin |-> NBINS]

\* a carve that fails already when the chunk would end exactly at top_end
take_top_strict(A, size, align) ==
    LET chunk_start == align_up(A.top_start, align)
        gapped == rebin(A, A.top_start, chunk_start - A.top_start)
    IN  IF gapped.panicked THEN [heap |-> gapped, ptr |-> NULL, bin |-> NBINS]
        ELSE IF chunk_start + size >= A.top_end
        THEN [heap |-> [gapped EXCEPT !.top_start = chunk_start],
              ptr |-> NULL, bin |-> NBINS]
        ELSE [heap |-> [gapped EXCEPT !.top_start = chunk_start + size],
              ptr |-> chunk_start, bin |-> NBINS]

\* alloc's miss: carve from the wilderness.  The gap is rebinned while
\* top_start still has its old value; a failed carve keeps the aligned top_start
take_top(A, size, align) ==
    LET chunk_start == align_up(A.top_start, align)
        gapped == rebin(A, A.top_start, chunk_start - A.top_start)
    IN  IF gapped.panicked THEN [heap |-> gapped, ptr |-> NULL, bin |-> NBINS]
        ELSE IF chunk_start + size > A.top_end
        THEN [heap |-> [gapped EXCEPT !.top_start = chunk_start],
              ptr |-> NULL, bin |-> NBINS]
        ELSE [heap |-> [gapped EXCEPT !.top_start = chunk_start + size],
              ptr |-> chunk_start, bin |-> NBINS]

\* Allocator::alloc(Layout{size, align}): [heap, ptr, bin]
alloc(A, lsize, lalign) ==
    IF lsize = 0 THEN [heap |-> A, ptr |-> NULL, bin |-> NBINS]
    ELSE
    LET align == max(8, lalign)
        size == BinSize(lsize)
        hit == scan_bins(A, size_to_bin(U64(size)), lalign)
    IN  IF hit[1] <= LASTBIN
        THEN take_bin(A, hit, size)
        ELSE take_top(A, size, align)

\* a dealloc that looks at the alignment before the size and the pointer
dealloc_align_first(A, ptr, lsize, lalign) ==
    IF ~is_aligned(ptr, lalign) THEN Panic(A)
    ELSE IF lsize = 0 \/ ptr = NULL THEN A
    ELSE rebin(A, ptr, BinSize(lsize))

\* Allocator::dealloc(ptr, Layout{size, align}): the allocator afterwards
dealloc(A, ptr, lsize, lalign) ==
    IF lsize = 0 \/ ptr = NULL THEN A
    ELSE IF ~is_aligned(ptr, lalign) THEN Panic(A)
    ELSE rebin(A, ptr, BinSize(lsize))

-----------------------------------------------------------------------------
(* Bounds of the allocator exploration *)

\* the backing region is [8 * StartUnit, 8 * (StartUnit + HeapUnits))
StartUnit == 1

HeapUnits == 6

\* how many allocations are live at once
MaxLive == 3

\* the layouts requested: three size classes, one size that is not a power of
\* two; an alignment below the clamp of 8 and one above it
Sizes == {8, 16, 24}

Aligns == {1, 16}

HeapStart == 8 * StartUnit

HeapEnd == 8 * (StartUnit + HeapUnits)

-----------------------------------------------------------------------------
(* State shared by the specifications: the parts one of them does not use  *)
(* keep these values.                                                      *)

NoTf == [ELR |-> Zero64, VTTBR |-> Zero64, xn |-> <<>>]

NoOp == [op |-> "none", size |-> 0, align |-> 1, ptr |-> NULL, bin |-> NBINS, gap |-> 0]

IdleBin == sizeIn = Zero64 /\ binOut = Unset

IdleVm == loads = 0 /\ loaded = {} /\ processes = <<>> /\ last_id = 0

IdleTrap == tf = NoTf /\ mem = <<>>

IdleExc == lock = 0 /\ stack = <<>>

IdleCpu == cpu = <<>>

IdleState == state = <<>>

IdleIrq == irq = <<>>

IdlePic == controller = <<>>

IdleTimer == timer = <<>>

IdleMutex == mutex = <<>>

IdleBoot == boot = <<>>

IdlePt == pagetable = <<>>

IdleSys == sysreg = <<>>

-----------------------------------------------------------------------------
(* The test scenarios of the allocator, followed call by call.             *)
(*   round trip: p = alloc(s, a); dealloc(p, s); alloc(s, a)               *)
(*   coalescing: p1 = alloc(s); p2 = alloc(s); dealloc of both in either   *)
(*               order; alloc(2s)                                          *)
(* A call is [op, size, align, ptr, bin].  For alloc, bin is the bin the    *)
(* block was popped from, NBINS when it did not come from a bin; for       *)
(* dealloc, bin is the bin on whose free list the freed chunk was pushed   *)
(* unmerged, NBINS when it coalesced with the top chunk or a neighbour.    *)

\* the bin whose free list has ptr at its head after dealloc(ptr, size)
PushedOn(A, ptr, size) ==
    LET k == size_to_bin(U64(size))
    IN  IF ~A.panicked /\ A.bins[k] # <<>> /\ Head(A.bins[k]) = ptr THEN k ELSE NBINS

Call(op, size, align, ptr, bin) ==
    [op |-> op, size |-> size, align |-> align, ptr |-> ptr, bin |-> bin]

IsRoundTripStart(t) ==
    /\ Len(t) \in 1..3
    /\ t[1].op = "alloc" /\ t[1].ptr # NULL
    /\ Len(t) >= 2 => t[2].op = "dealloc" /\ t[2].ptr = t[1].ptr
    /\ Len(t) >= 3 => t[3].op = "alloc" /\ t[3].size = t[1].size /\ t[3].align = t[1].align

IsCoalesceStart(t) ==
    /\ Len(t) \in 1..5
    /\ t[1].op = "alloc" /\ t[1].ptr # NULL /\ t[1].align <= 8
    /\ Len(t) >= 2 => /\ t[2].op = "alloc" /\ t[2].ptr # NULL
                      /\ t[2].size = t[1].size /\ t[2].align = t[1].align
    /\ Len(t) >= 3 => t[3].op = "dealloc" /\ t[3].ptr \in {t[1].ptr, t[2].ptr}
    /\ Len(t) >= 4 => t[4].op = "dealloc" /\ t[4].ptr \in {t[1].ptr, t[2].ptr} \ {t[3].ptr}
    /\ Len(t) >= 5 => /\ t[5].op = "alloc" /\ t[5].size = 2 * t[1].size
                      /\ t[5].align = t[1].align

\* the longest tail of the calls so far that begins a scenario
RECURSIVE Follow(_)
Follow(t) ==
    IF t = <<>> \/ IsRoundTripStart(t) \/ IsCoalesceStart(t) THEN t
    ELSE Follow(Tail(t))

-----------------------------------------------------------------------------
(* The allocator under its callers' contract: alloc with size > 0 and a    *)
(* power-of-two alignment, dealloc with the pointer and layout of a live   *)
(* allocation.                                                             *)

InitAlloc ==
    /\ heap = Allocator_new(HeapStart, HeapEnd)
    /\ live = {}
    /\ ret = NoOp
    /\ trail = <<>>
    /\ halted = FALSE
    /\ IdleBin /\ IdleVm /\ IdleTrap /\ IdleExc /\ IdleCpu /\ IdleState /\ IdleIrq /\ IdlePic
    /\ IdleTimer /\ IdleMutex /\ IdleBoot /\ IdlePt /\ IdleSys

Alloc(size, align) ==
    /\ ~halted
    /\ Cardinality(live) < MaxLive
    /\ \E r \in {alloc(heap, size, align)} :
           /\ heap' = r.heap
           /\ halted' = r.heap.panicked
           /\ live' = IF r.ptr # NULL
                      THEN live \cup {[ptr |-> r.ptr, size |-> size, align |-> align]}
                      ELSE live
           /\ ret' = [op |-> "alloc", size |-> size, align |-> align,
                      ptr |-> r.ptr, bin |-> r.bin,
                      gap |-> align_up(heap.top_start, max(8, align)) - heap.top_start]
           /\ trail' = Follow(Append(trail, Call("alloc", size, align, r.ptr, r.bin)))
    /\ UNCHANGED <<sizeIn, binOut, loads, loaded, processes, last_id, tf, mem, lock, stack, cpu,
                   state, irq, controller, timer, mutex, boot, pagetable, sysreg>>

Dealloc(a) ==
    /\ ~halted
    /\ \E h \in {dealloc(heap, a.ptr, a.size, a.align)} :
           /\ heap' = h
           /\ halted' = h.panicked
    /\ live' = live \ {a}
    /\ ret' = [op |-> "dealloc", size |-> a.size, align |-> a.align,
               ptr |-> a.ptr, bin |-> NBINS, gap |-> 0]
    /\ trail' = Follow(Append(trail, Call("dealloc", a.size, a.align, a.ptr,
                                          PushedOn(heap', a.ptr, a.size))))
    /\ UNCHANGED <<sizeIn, binOut, loads, loaded, processes, last_id, tf, mem, lock, stack, cpu,
                   state, irq, controller, timer, mutex, boot, pagetable, sysreg>>

NextAlloc ==
    \/ \E size \in Sizes, align \in Aligns : Alloc(size, align)
    \/ \E a \in live : Dealloc(a)

SpecAlloc == InitAlloc /\ [][NextAlloc]_vars

-----------------------------------------------------------------------------
(* Claims about the allocator *)

RECURSIVE SumBinSize(_)
\* the bytes the allocations of S occupy, each at its bin size
SumBinSize(S) ==
    IF S = {} THEN 0
    ELSE LET a == CHOOSE x \in S : TRUE IN BinSize(a.size) + SumBinSize(S \ {a})

C2_Aligned ==
    (ret.op = "alloc" /\ ret.ptr # NULL) => ret.ptr % ret.align = 0

\* an allocation aligned above 8 served from a bin above its size class
C2_Witness ==
    /\ ret.op = "alloc" /\ ret.ptr # NULL /\ ret.align > 8
    /\ ret.bin <= LASTBIN /\ ret.bin > size_to_bin(U64(ret.size))

\* the most bytes alignment can have skipped in front of a block: top_start is
\* a multiple of 8, so aligning it up to align skips at most align - 8 bytes
MaxPad(align) == max(8, align) - 8

RECURSIVE SumMaxPad(_)
SumMaxPad(S) ==
    IF S = {} THEN 0
    ELSE LET a == CHOOSE x \in S : TRUE IN MaxPad(a.align) + SumMaxPad(S \ {a})

\* live bytes plus alignment waste plus the request, counted generously: every
\* block at its bin size, every block with the largest padding its alignment
\* can have cost
LiveAndWaste ==
    SumBinSize(live) + SumMaxPad(live) + BinSize(ret.size) + MaxPad(ret.align)

\* C3 as stated: alloc returns non-null whenever the cumulative live size
\* plus alignment waste is less than the region size
C3_NonNullWhenRoom ==
    (ret.op = "alloc" /\ ret.ptr = NULL) => LiveAndWaste >= HeapEnd - HeapStart

\* C3 as amended: alloc returns null only when carving from the top chunk
\* would exceed top_end (top_start, aligned, plus the bin size is past top_end);
\* free bytes scattered over the bins do not make it succeed
C3_NullOnlyWhenTopExhausted ==
    (ret.op = "alloc" /\ ret.ptr = NULL)
        => /\ heap.top_start % max(8, ret.align) = 0
           /\ heap.top_start + BinSize(ret.size) > heap.top_end

\* a failed alloc although live bytes plus the request are below the region size
C3_Witness ==
    /\ ret.op = "alloc" /\ ret.ptr = NULL /\ ~halted
    /\ LiveAndWaste < HeapEnd - HeapStart

\* every chunk the allocator tracks lies in the backing region
WithinRegion ==
    /\ heap.top_start <= heap.top_end
    /\ \A b \in 0..LASTBIN : \A i \in 1..Len(heap.bins[b]) :
           heap.bins[b][i] + ToInt(bin_to_size(b)) <= HeapEnd
    /\ \A a \in live : a.ptr + BinSize(a.size) <= HeapEnd

\* the calls of a completed round trip
RoundTripDone == Len(trail) = 3 /\ IsRoundTripStart(trail)

\* C4 as stated: after ptr = alloc(s, a) and dealloc(ptr, s), the next
\* alloc(s, a) returns ptr again, or at worst a block popped from the free
\* list of the same bin (stated for an allocator whose chunks all lie in the
\* backing region)
C4_RoundTripSamePointer ==
    (RoundTripDone /\ WithinRegion /\ trail[1].ptr + BinSize(trail[1].size) <= HeapEnd)
        => \/ trail[3].ptr = trail[1].ptr
           \/ trail[3].ptr # NULL /\ trail[3].bin = size_to_bin(U64(trail[1].size))

\* C4 as amended: the next alloc(s, a) returns ptr again when dealloc pushed
\* the freed chunk onto its bin's free list unmerged (it coalesced neither
\* with the top chunk nor with a neighbour)
C4_RoundTripWhenPushed ==
    (RoundTripDone /\ trail[2].bin = size_to_bin(U64(trail[1].size)))
        => trail[3].ptr = trail[1].ptr

\* a round trip whose freed chunk was pushed unmerged onto a bin that holds
\* another chunk
C4_Witness ==
    /\ RoundTripDone
    /\ trail[2].bin = size_to_bin(U64(trail[1].size))
    /\ heap.bins[trail[2].bin] # <<>>
    /\ trail[3].ptr = trail[1].ptr

\* the calls of a completed coalescing scenario
CoalesceDone == Len(trail) = 5 /\ IsCoalesceStart(trail)

\* C5: after p1 = alloc(s) and p2 = alloc(s) are both deallocated, in either
\* order, alloc(2s) succeeds (stated for an allocator whose chunks all lie in
\* the backing region)
C5_CoalescedAllocSucceeds ==
    (CoalesceDone /\ WithinRegion /\ trail[2].ptr = trail[1].ptr + trail[1].size)
        => trail[5].ptr # NULL

-----------------------------------------------------------------------------
(* size_to_bin on its own, over usize.  The sizes tried are the small ones, *)
(* the size of the unit test, and the three sizes around every power of    *)
(* two of a 64-bit word.                                                   *)

SmallSizes == {U64(n) : n \in 0..40} \cup {U64(1234)}

AroundPowers ==
    UNION {{Sub1(Shl1(e)), Shl1(e), Add1(Shl1(e))} : e \in 0..63}

InitBin ==
    /\ sizeIn \in SmallSizes \cup AroundPowers
    /\ binOut = Unset
    /\ heap = Allocator_new(HeapStart, HeapEnd) /\ live = {} /\ ret = NoOp
    /\ trail = <<>> /\ halted = FALSE
    /\ IdleVm /\ IdleTrap /\ IdleExc /\ IdleCpu /\ IdleState /\ IdleIrq /\ IdlePic /\ IdleTimer
    /\ IdleMutex /\ IdleBoot /\ IdlePt /\ IdleSys

\* the call size_to_bin(sizeIn)
SizeToBin ==
    /\ binOut = Unset
    /\ binOut' = size_to_bin(sizeIn)
    /\ UNCHANGED <<heap, live, ret, trail, halted, sizeIn, loads, loaded, processes,
                   last_id, tf, mem, lock, stack, cpu, state, irq, controller, timer, mutex,
                   boot, pagetable, sysreg>>

NextBin == SizeToBin

SpecBin == InitBin /\ [][NextBin]_vars

\* C6: size_to_bin(0) panics; for every n >= 1 of usize, size_to_bin(n) is the
\* smallest k in 0..29 with 2^(k+3) >= n, so that bin_to_size(size_to_bin(n)) >= n
C6_SmallestBin ==
    binOut # Unset =>
        IF sizeIn = Zero64 THEN binOut = PANICKED
        ELSE /\ binOut \in 0..LASTBIN
             /\ Geq64(bin_to_size(binOut), sizeIn)
             /\ binOut > 0 => ~Geq64(bin_to_size(binOut - 1), sizeIn)

-----------------------------------------------------------------------------
(* param.rs, vm/pagetable.rs: pages and stage-2 page tables.  A table is   *)
(* the function from the slots holding a non-zero L3 entry (slot =         *)
(* l2index * 8192 + l3index, the order of PageTable::into_iter) to the raw *)
(* entry; every other slot holds 0, as L3PageTable::new leaves it.         *)

PAGE_ALIGN == 16

PAGE_SIZE == 65536

KERN_START_ADDR == 524288

GUEST_MAX_VM_SIZE == 268435456

\* entries of an L3PageTable
L3_ENTRIES == 8192

\* Page::layout()
PageLayout == [size |-> PAGE_SIZE, align |-> PAGE_SIZE]

\* Layout of PageTable: an L2 table and two L3 tables, repr(align(65536))
PageTableLayout == [size |-> 3 * PAGE_SIZE, align |-> PAGE_SIZE]

\* Layout of GuestPageTable(Box<PageTable>)
GuestPageTableLayout == [size |-> 8, align |-> 8]

\* Layout of TrapFrame: 12 u64, 32 u128, 32 u64
TrapFrameLayout == [size |-> 12 * 8 + 32 * 16 + 32 * 8, align |-> 16]

\* the bits GuestPageTable::alloc sets below ADDR: VALID, TYPE, ATTR = 0b11,
\* CACHE = 0b11, S2AP = READWRITE, SH = 0b11, AF
Stage2Attrs == 1 + 2 + 4 * 3 + 16 * 3 + 64 * 3 + 256 * 3 + 1024

\* an entry that loses the lowest bit of the page number
stage2_l3pte_coarse(buf) == (buf \div 2 ^ (PAGE_ALIGN + 1)) * 2 ^ 17 + Stage2Attrs

\* the entry GuestPageTable::alloc builds for the page at buf: ADDR is bits 47..16
stage2_l3pte(buf) == (buf \div 2 ^ PAGE_ALIGN) * 2 ^ 16 + Stage2Attrs

\* L3Entry::is_valid: the VALID bit
is_valid(entry) == entry % 2 = 1

\* get_value(ADDR) << PAGE_ALIGN, as Drop for GuestPageTable reads it
entry_page(entry) == (entry \div 2 ^ 16) * 2 ^ PAGE_ALIGN

\* PageTable::locate: <<l2index, l3index>>, <<PANICKED, PANICKED>> where it panics
locate(va) ==
    IF va % PAGE_SIZE # 0 THEN <<PANICKED, PANICKED>>
    ELSE LET l3index == (va \div 2 ^ PAGE_ALIGN) % (2 ^ 13)
             l2index == (va \div 2 ^ 29) % (2 ^ 13)
         IN  IF l2index >= 2 THEN <<PANICKED, PANICKED>> ELSE <<l2index, l3index>>

Slot(loc) == loc[1] * L3_ENTRIES + loc[2]

\* PageTable::get_entry, for a va locate accepts
get_entry(table, va) ==
    LET s == Slot(locate(va)) IN IF s \in DOMAIN table THEN table[s] ELSE 0

\* PageTable::set_entry, for a va locate accepts
set_entry(table, va, entry) ==
    LET s == Slot(locate(va))
    IN  [x \in DOMAIN table \cup {s} |-> IF x = s THEN entry ELSE table[x]]

EmptyTable == [x \in {} |-> 0]

-----------------------------------------------------------------------------
(* The global allocator and what is built on it.  A machine is             *)
(* [heap, live, halted]: the allocator, the blocks handed out, and whether *)
(* a panic has stopped the hypervisor.  Every operation is a no-op on a    *)
(* halted machine.                                                         *)

\* the element of a one-element set: Only({e(x) : x \in {v}}) is e(v), with v
\* computed once
Only(S) == CHOOSE x \in S : TRUE

Halt(M) == [M EXCEPT !.halted = TRUE]

\* ALLOCATOR.alloc(layout): [m, ptr, bin]
Galloc(M, layout) ==
    IF M.halted THEN [m |-> M, ptr |-> NULL, bin |-> NBINS]
    ELSE Only({[m |-> [heap |-> r.heap,
                       live |-> IF r.ptr # NULL
                                THEN M.live \cup {[ptr |-> r.ptr, size |-> layout.size,
                                                   align |-> layout.align]}
                                ELSE M.live,
                       halted |-> r.heap.panicked],
                ptr |-> r.ptr, bin |-> r.bin] :
               r \in {alloc(M.heap, layout.size, layout.align)}})

\* ALLOCATOR.dealloc(ptr, layout)
Gdealloc(M, ptr, layout) ==
    IF M.halted THEN M
    ELSE Only({[heap |-> h,
                live |-> M.live \ {[ptr |-> ptr, size |-> layout.size,
                                    align |-> layout.align]},
                halted |-> h.panicked] :
               h \in {dealloc(M.heap, ptr, layout.size, layout.align)}})

\* Box::new: a null block ends in handle_alloc_error
Box_new(M, layout) ==
    Only({IF r.ptr = NULL THEN [r EXCEPT !.m = Halt(r.m)] ELSE r :
          r \in {Galloc(M, layout)}})

\* GuestPageTable::alloc(va): [m, vmap, bin].  The page is allocated before
\* the entry is looked at
GuestPageTable_alloc(M, vmap, va) ==
    IF M.halted THEN [m |-> M, vmap |-> vmap, bin |-> NBINS]
    ELSE Only({IF r.ptr = NULL \/ r.m.halted
               THEN [m |-> Halt(r.m), vmap |-> vmap, bin |-> NBINS]
               ELSE IF locate(va)[1] = PANICKED
               THEN [m |-> Halt(r.m), vmap |-> vmap, bin |-> NBINS]
               ELSE IF is_valid(get_entry(vmap, va))
               THEN [m |-> Halt(r.m), vmap |-> vmap, bin |-> NBINS]
               ELSE [m |-> r.m, vmap |-> set_entry(vmap, va, stage2_l3pte(r.ptr)),
                     bin |-> r.bin] :
               r \in {Galloc(M, PageLayout)}})

RECURSIVE alloc_pages(_, _, _, _)
\* count calls of GuestPageTable::alloc on the consecutive pages from va: [m, vmap]
alloc_pages(M, vmap, va, count) ==
    IF count = 0 \/ M.halted THEN [m |-> M, vmap |-> vmap]
    ELSE IF count = 1
    THEN Only({[m |-> r.m, vmap |-> r.vmap] : r \in {GuestPageTable_alloc(M, vmap, va)}})
    ELSE Only({alloc_pages(r.m, r.vmap, va + (count \div 2) * PAGE_SIZE,
                           count - count \div 2) :
               r \in {alloc_pages(M, vmap, va, count \div 2)}})

RECURSIVE drop_pages_skip_first(_, _, _)
\* a drop that passes over the first entry of the walk
drop_pages_skip_first(M, vmap, slots) ==
    IF slots = {} THEN M
    ELSE LET s == CHOOSE x \in slots : \A y \in slots : x <= y
         IN  Only({drop_pages_skip_first(m, vmap, slots \ {s}) :
                   m \in {IF vmap[s] # 0 /\ s # 0
                          THEN Gdealloc(M, entry_page(vmap[s]), PageLayout)
                          ELSE M}})

RECURSIVE drop_pages(_, _, _)
\* Drop for GuestPageTable: every non-zero entry's page goes back, in slot order
drop_pages(M, vmap, slots) ==
    IF slots = {} THEN M
    ELSE LET s == CHOOSE x \in slots : \A y \in slots : x <= y
         IN  Only({drop_pages(m, vmap, slots \ {s}) :
                   m \in {IF vmap[s] # 0
                          THEN Gdealloc(M, entry_page(vmap[s]), PageLayout)
                          ELSE M}})

\* Process::new: [m, p].  GuestPageTable::new boxes the PageTable and calls
\* VMM.mark_noncacheable(&pt) on the address of its local variable pt, which
\* PageTable::locate accepts only if that address is page aligned; then the
\* GuestPageTable and the TrapFrame are boxed
Process_new(M, ptLocalAligned) ==
    Only({[m |-> r3.m,
           p |-> [pt |-> r1.ptr, gpt |-> r2.ptr, context |-> r3.ptr, vmap |-> EmptyTable,
                  VTTBR |-> U64(r1.ptr), ELR |-> Zero64]] :
          <<r1, r2, r3>> \in
              UNION {UNION {{<<b1, b2, b3>> : b3 \in {Box_new(b2.m, TrapFrameLayout)}} :
                            b2 \in {Box_new(IF ptLocalAligned THEN b1.m ELSE Halt(b1.m),
                                            GuestPageTableLayout)}} :
                     b1 \in {Box_new(M, PageTableLayout)}}})

\* drop of a Process: context, then vmap (the pages, the PageTable, the box)
Process_drop(M, p) ==
    Only({Gdealloc(m3, p.gpt, GuestPageTableLayout) :
          m3 \in {Gdealloc(m2, p.pt, PageTableLayout) :
                  m2 \in {drop_pages(m1, p.vmap, DOMAIN p.vmap) :
                          m1 \in {Gdealloc(M, p.context, TrapFrameLayout)}}}})

\* Process::load: [m, p, ok].  The pages of [0, KERN_START_ADDR) are
\* allocated, the file is opened, and one page is allocated per chunk read
\* until a read returns 0; an error of open_file or read drops the process
Process_load(M, ptLocalAligned, imagePages, outcome) ==
    Only({Only({IF outcome = "open_failed"
                THEN [m |-> Process_drop(low.m, [n.p EXCEPT !.vmap = low.vmap]),
                      p |-> n.p, ok |-> FALSE]
                ELSE Only({IF outcome = "read_failed"
                           THEN [m |-> Process_drop(img.m, [n.p EXCEPT !.vmap = img.vmap]),
                                 p |-> n.p, ok |-> FALSE]
                           ELSE [m |-> img.m,
                                 p |-> [n.p EXCEPT !.vmap = img.vmap,
                                                   !.ELR = U64(KERN_START_ADDR)],
                                 ok |-> ~img.m.halted] :
                           img \in {alloc_pages(low.m, low.vmap, KERN_START_ADDR,
                                                imagePages)}}) :
                low \in {alloc_pages(n.m, n.p.vmap, 0, KERN_START_ADDR \div PAGE_SIZE)}}) :
          n \in {Process_new(M, ptLocalAligned)}})

\* Process::set_vmid: bits 63..48 of VTTBR become the vmid
set_vmid(p, vmid) == [p EXCEPT !.VTTBR = <<@[1], @[2], @[3], vmid>>]

\* VTTBR_EL2::get_masked(VTTBR, VMID) as u8: bits 55..48
get_vmid(VTTBR) == VTTBR[4] % 256

\* Scheduler::get_by_vmid: the index in processes of the process returned
get_by_vmid(procs, vmid) == 1

\* an add whose counter wraps around instead of panicking
Scheduler_add_wrapping(procs, lastId, p) ==
    [processes |-> Append(procs, set_vmid(p, lastId)),
     last_id |-> (lastId + 1) % 256,
     panicked |-> FALSE]

\* Scheduler::add: [processes, last_id, panicked].  checked_add panics on
\* the 256th process, after the push
Scheduler_add(procs, lastId, p) ==
    [processes |-> Append(procs, set_vmid(p, lastId)),
     last_id |-> IF lastId = 255 THEN lastId ELSE lastId + 1,
     panicked |-> lastId = 255]

\* the lazy-paging part of handle_lower_el_synchronous for an instruction
\* abort of the given kind: [m, processes, tf, outcome, allocs, bin].  The
\* outcome is "returned" when the handler returns to the guest, "fatal" when
\* it falls through to the debug shell, "panicked" when it panics
lazy_paging(M, procs, kind, hpfar, frame) ==
    LET translation_fault_addr == (hpfar \div 16) * 4096
        fault_page == align_down(translation_fault_addr, PAGE_SIZE)
        vmid == get_vmid(frame.VTTBR)
        i == get_by_vmid(procs, vmid)
        fatal == [m |-> Halt(M), processes |-> procs, tf |-> frame, outcome |-> "fatal",
                  allocs |-> 0, bin |-> NBINS]
    IN  IF kind \in {"AccessFlag", "Translation"}
           /\ translation_fault_addr < GUEST_MAX_VM_SIZE
           /\ ~is_valid(get_entry(procs[i].vmap, fault_page))
        THEN Only({[m |-> r.m, processes |-> [procs EXCEPT ![i].vmap = r.vmap],
                    tf |-> frame,
                    outcome |-> IF r.m.halted THEN "panicked" ELSE "returned",
                    allocs |-> 1, bin |-> r.bin] :
                   r \in {GuestPageTable_alloc(M, procs[i].vmap, fault_page)}})
        ELSE fatal

-----------------------------------------------------------------------------
(* Guests: processes are loaded, queued or dropped, and queued guests      *)
(* fault on their stage-2 tables.                                          *)

\* processes alive at once, loaded or queued
MaxProcs == 2

\* calls of Process::load in a run
MaxLoads == 3

\* pages the image read takes: a short image, and one a page longer
ImagePages == {1, 2}

\* pages of the allocator's region
VmHeapPages == 36

\* where the allocator's region starts: 8-aligned, off the page boundary
VmHeapStarts == {16 * PAGE_SIZE + 4104}

\* fault kinds of an abort syndrome tried
Kinds == {"Translation", "AccessFlag", "Permission"}

\* IPAs faulted on: pre-populated, just above the smallest image, the last
\* guest page, the first address past guest memory
FaultIPAs ==
    {0, KERN_START_ADDR + PAGE_SIZE + 4096, GUEST_MAX_VM_SIZE - 4096, GUEST_MAX_VM_SIZE}

\* HPFAR_EL2 holds IPA bits 47..12 in bits 39..4
Hpfars == {(ipa \div 4096) * 16 : ipa \in FaultIPAs}

Machine == [heap |-> heap, live |-> live, halted |-> halted]

InitVm ==
    /\ \E start \in VmHeapStarts :
           heap = Allocator_new(start, start + VmHeapPages * PAGE_SIZE)
    /\ live = {}
    /\ ret = NoOp
    /\ trail = <<>>
    /\ halted = FALSE
    /\ loads = 0 /\ loaded = {} /\ processes = <<>> /\ last_id = 0
    /\ tf = NoTf
    /\ IdleBin /\ mem = <<>> /\ IdleExc /\ IdleCpu /\ IdleState /\ IdleIrq /\ IdlePic
    /\ IdleTimer /\ IdleMutex /\ IdleBoot /\ IdlePt /\ IdleSys

\* Process::load(pn)
Load(ptLocalAligned, imagePages, outcome) ==
    /\ ~halted
    /\ Cardinality(loaded) + Len(processes) < MaxProcs
    /\ loads < MaxLoads
    /\ loads' = loads + 1
    /\ \E M \in {Machine} : \E r \in {Process_load(M, ptLocalAligned, imagePages, outcome)} :
           /\ heap' = r.m.heap /\ live' = r.m.live /\ halted' = r.m.halted
           /\ loaded' = IF r.ok THEN loaded \cup {r.p} ELSE loaded
           /\ ret' = [op |-> "load", ok |-> r.ok]
    /\ UNCHANGED <<trail, sizeIn, binOut, processes, last_id, tf, mem, lock, stack, cpu, state,
                   irq, controller, timer, mutex, boot, pagetable, sysreg>>

\* SCHEDULER.add(process)
Add(p) ==
    /\ ~halted
    /\ \E r \in {Scheduler_add(processes, last_id, p)} :
           /\ processes' = r.processes /\ last_id' = r.last_id /\ halted' = r.panicked
    /\ loaded' = loaded \ {p}
    /\ ret' = [op |-> "add", vmid |-> last_id]
    /\ UNCHANGED <<heap, live, trail, sizeIn, binOut, loads, tf, mem, lock, stack, cpu, state,
                   irq, controller, timer, mutex, boot, pagetable, sysreg>>

\* a loaded process goes out of scope without being queued
DropLoaded(p) ==
    /\ ~halted
    /\ \E M \in {Machine} : \E m \in {Process_drop(M, p)} :
           /\ heap' = m.heap /\ live' = m.live /\ halted' = m.halted
    /\ loaded' = loaded \ {p}
    /\ ret' = [op |-> "drop", pt |-> p.pt]
    /\ UNCHANGED <<trail, sizeIn, binOut, loads, processes, last_id, tf, mem, lock, stack, cpu,
                   state, irq, controller, timer, mutex, boot, pagetable, sysreg>>

\* the indices of the processes whose page table differs between before and after
Touched(before, after) == {j \in 1..Len(before) : before[j].vmap # after[j].vmap}

\* the index of the process whose VTTBR carries the vmid
Owner(procs, vmid) == CHOOSE j \in 1..Len(procs) : get_vmid(procs[j].VTTBR) = vmid

\* handle_exception for an instruction abort of queued guest g, taken from
\* lower-EL AArch64 with the guest's VTTBR in the trap frame
Fault(g, kind, hpfar) ==
    /\ ~halted
    /\ LET frame == [ELR |-> processes[g].ELR, VTTBR |-> processes[g].VTTBR, xn |-> <<>>]
           page == align_down((hpfar \div 16) * 4096, PAGE_SIZE)
       IN  \E M \in {Machine} : \E r \in {lazy_paging(M, processes, kind, hpfar, frame)} :
               /\ heap' = r.m.heap /\ live' = r.m.live /\ halted' = r.m.halted
               /\ processes' = r.processes
               /\ tf' = r.tf
               /\ ret' = [op |-> "fault", kind |-> kind, ipa |-> (hpfar \div 16) * 4096,
                          page |-> page, frame |-> frame,
                          owner |-> Owner(processes, get_vmid(frame.VTTBR)),
                          ownerValid |-> page < GUEST_MAX_VM_SIZE
                                         /\ is_valid(get_entry(processes[g].vmap, page)),
                          outcome |-> r.outcome, allocs |-> r.allocs, bin |-> r.bin,
                          touched |-> Touched(processes, r.processes)]
    /\ UNCHANGED <<trail, sizeIn, binOut, loads, loaded, last_id, mem, lock, stack, cpu, state,
                   irq, controller, timer, mutex, boot, pagetable, sysreg>>

NextVm ==
    \/ \E a \in BOOLEAN, n \in ImagePages,
          o \in {"ok", "open_failed", "read_failed"} : Load(a, n, o)
    \/ \E p \in loaded : Add(p)
    \/ \E p \in loaded : DropLoaded(p)
    \/ \E g \in 1..Len(processes), k \in Kinds, h \in Hpfars : Fault(g, k, h)

SpecVm == InitVm /\ [][NextVm]_vars

-----------------------------------------------------------------------------
(* Claims about guest page tables and lazy paging *)

\* the processes in existence, loaded or queued
Guests == loaded \cup {processes[i] : i \in 1..Len(processes)}

\* the valid L3 entries of all guest page tables: [pt, slot, entry]
ValidEntries ==
    UNION {{[pt |-> p.pt, slot |-> s, entry |-> p.vmap[s]] :
            s \in {x \in DOMAIN p.vmap : is_valid(p.vmap[x])}} : p \in Guests}

\* C7: the ADDR field of every valid stage-2 L3 entry of every guest page
\* table denotes a page currently allocated from the bin allocator, and no
\* other valid entry of the same or another guest page table denotes that page
C7_PagesOwnedOnce ==
    \A e \in ValidEntries :
        /\ [ptr |-> entry_page(e.entry), size |-> PAGE_SIZE, align |-> PAGE_SIZE] \in live
        /\ \A f \in ValidEntries : f # e => entry_page(f.entry) # entry_page(e.entry)

\* two guests exist and a lazy allocation has just mapped a page that came
\* from a bin, that is, memory an earlier drop or alignment gap gave back
C7_Witness ==
    /\ Cardinality(Guests) >= 2
    /\ ret.op = "fault" /\ ret.allocs = 1 /\ ret.outcome = "returned"
    /\ ret.bin <= LASTBIN

\* C8: a Translation or AccessFlag abort whose IPA lies in
\* [0, GUEST_MAX_VM_SIZE) and whose page has an invalid stage-2 entry in the
\* faulting guest's table triggers exactly one GuestPageTable::alloc for that
\* page and returns with the trap frame unchanged; a fault on a page that is
\* already valid triggers no allocation (faults whose allocation panics for
\* lack of memory are left out)
C8_LazyPaging ==
    (/\ ret.op = "fault" /\ ret.kind \in {"Translation", "AccessFlag"}
     /\ ret.ipa < GUEST_MAX_VM_SIZE /\ ret.outcome # "panicked")
        => IF ret.ownerValid THEN ret.allocs = 0
           ELSE /\ ret.allocs = 1 /\ ret.outcome = "returned"
                /\ tf = ret.frame
                /\ is_valid(get_entry(processes[ret.owner].vmap, ret.page))

\* C9: a lazy allocation for a fault taken with VMID v fills the table of
\* the process that owns VMID v and changes no other process's table
C9_FillsOwnersTable ==
    (ret.op = "fault" /\ ret.allocs = 1 /\ ret.outcome = "returned")
        => ret.touched = {ret.owner}

-----------------------------------------------------------------------------
(* traps.rs: MMIO emulation.  Memory is a function from the byte addresses *)
(* of a stretch of the peripheral window to bytes; the trap frame is       *)
(* [ELR, VTTBR, xn] with xn a function from 0..31 to 64-bit words.         *)

\* pi::common: the peripheral window of the BCM2837
IO_BASE == 1056964608

IO_BASE_END == 1075904511

\* get_value of a defbit! field [hi-lo]
get_value(word, hi, lo) == (word \div 2 ^ lo) % 2 ^ (hi - lo + 1)

\* the fields of DataAbortSyndrome that handle_mmio reads
SAS(iss) == get_value(iss, 23, 22)

SSE(iss) == get_value(iss, 21, 21)

SRT(iss) == get_value(iss, 20, 16)

SF(iss) == get_value(iss, 15, 15)

WnR(iss) == get_value(iss, 6, 6)

\* v + n modulo 2^64 for a small n
Add64(v, n) ==
    LET s1 == v[1] + n
        s2 == v[2] + s1 \div Limb
        s3 == v[3] + s2 \div Limb
        s4 == v[4] + s3 \div Limb
    IN  <<s1 % Limb, s2 % Limb, s3 % Limb, s4 % Limb>>

\* byte k of a 64-bit word, byte 0 the lowest
ByteOf(v, k) ==
    LET l == v[(k \div 2) + 1] IN IF k % 2 = 0 THEN l % 256 ELSE l \div 256

\* *(addr as *mut uN) for N = 8n, zero-extended to 64 bits (little endian)
read_le(memory, addr, n) ==
    [j \in 1..4 |->
        (IF 2 * (j - 1) < n THEN memory[addr + 2 * (j - 1)] ELSE 0)
        + 256 * (IF 2 * (j - 1) + 1 < n THEN memory[addr + 2 * (j - 1) + 1] ELSE 0)]

\* *(addr as *mut uN) = v as uN for N = 8n
write_le(memory, addr, n, v) ==
    [a \in DOMAIN memory |->
        IF a >= addr /\ a < addr + n THEN ByteOf(v, a - addr) ELSE memory[a]]

\* a load that zero-extends whatever SSE says
sign_extend_never(v, n) == v

\* (x as iN) as u64 for N = 8n, x given zero-extended
sign_extend(v, n) ==
    IF ByteOf(v, n - 1) < 128 THEN v
    ELSE [j \in 1..4 |->
            IF 2 * j <= n THEN v[j]
            ELSE IF 2 * (j - 1) >= n THEN Limb - 1
            ELSE v[j] + (Limb - 256)]

\* a store that forgets the 32-bit mask of a w register
mmio_store_data_unmasked(x, reg64) == x

\* the data a store writes: tf.xn[regno], masked to 32 bits for a w register
mmio_store_data(x, reg64) == IF reg64 THEN x ELSE <<x[1], x[2], 0, 0>>

\* a load into a w register that replaces the whole register
mmio_load_result_full(old, data, reg64) == data

\* the register after a load: data, or for a w register the old high 32 bits
\* over the low 32 bits of data
mmio_load_result(old, data, reg64) ==
    IF reg64 THEN data ELSE <<data[1], data[2], old[3], old[4]>>

\* handle_mmio(fault_addr, iss, tf): [tf, mem, panicked]
handle_mmio(frame, memory, fault_addr, iss) ==
    IF ~(fault_addr >= IO_BASE /\ fault_addr < IO_BASE_END)
    THEN [tf |-> frame, mem |-> memory, panicked |-> TRUE]
    ELSE
    LET sext == SSE(iss) = 1
        regno == SRT(iss)
        write == WnR(iss) = 1
        reg64 == SF(iss) = 1
        n == 2 ^ SAS(iss)
    IN  IF write
        THEN [tf |-> [frame EXCEPT !.ELR = Add64(@, 4)],
              mem |-> write_le(memory, fault_addr, n,
                               mmio_store_data(frame.xn[regno], reg64)),
              panicked |-> FALSE]
        ELSE LET raw == read_le(memory, fault_addr, n)
                 data == IF sext THEN sign_extend(raw, n) ELSE raw
             IN  [tf |-> [frame EXCEPT
                            !.xn[regno] = mmio_load_result(@, data, reg64),
                            !.ELR = Add64(@, 4)],
                  mem |-> memory,
                  panicked |-> FALSE]

\* emulated accesses in a run
MaxTraps == 1

\* the System Timer registers CS, CLO, CHI, C0: 16 bytes at IO_BASE + 0x3000
Window == (IO_BASE + 12288)..(IO_BASE + 12288 + 15)

\* the addresses accessed: of CS, CLO and CHI
FaultAddrs == {IO_BASE + 12288, IO_BASE + 12288 + 4, IO_BASE + 12288 + 8}

\* the registers named by SRT
SRTs == {3, 5, 7}

\* the syndromes tried: every access size, sign extension, register width
\* and direction, with ISV = 1 and DFSC a level-3 translation fault
Isses ==
    {2 ^ 24 + sas * 2 ^ 22 + sse * 2 ^ 21 + srt * 2 ^ 16 + sf * 2 ^ 15 + wnr * 2 ^ 6 + 7 :
        sas \in 0..3, sse \in 0..1, srt \in SRTs, sf \in 0..1, wnr \in 0..1}

\* contents of the registers named: 0xDEADBEEF, 0xAAAAAAAA_CCCCCCCC and a
\* word with the top bit of its byte, halfword, word and doubleword set
RegValues ==
    {<<48879, 57005, 0, 0>>, <<52428, 52428, 43690, 43690>>, <<32896, 32768, 1, 32768>>}

\* return addresses: the image base, and two whose + 4 carries across limbs
ElrValues == {U64(KERN_START_ADDR), <<Limb - 4, 8, 0, 0>>, <<Limb - 4, Limb - 1, 0, 65535>>}

\* memory images: CLO = 0x7F7F7FFF and CHI = 0x80000001, or no sign bit anywhere
MemImages ==
    {[a \in Window |->
        LET k == a - (IO_BASE + 12288)
        IN  IF k = 4 THEN 255 ELSE IF k \in {5, 6, 7} THEN 127
            ELSE IF k = 8 THEN 1 ELSE IF k = 11 THEN 128 ELSE 0],
     [a \in Window |-> 17 + (a - (IO_BASE + 12288))]}

InitMmio ==
    /\ \E elr \in ElrValues, v \in RegValues :
           tf = [ELR |-> elr, VTTBR |-> U64(17 * PAGE_SIZE),
                 xn |-> [i \in 0..31 |-> IF i \in SRTs THEN v ELSE U64(i)]]
    /\ mem \in MemImages
    /\ ret = [op |-> "none", n |-> 0]
    /\ heap = Allocator_new(HeapStart, HeapEnd) /\ live = {} /\ trail = <<>>
    /\ halted = FALSE
    /\ IdleBin /\ IdleVm /\ IdleExc /\ IdleCpu /\ IdleState /\ IdleIrq /\ IdlePic /\ IdleTimer
    /\ IdleMutex /\ IdleBoot /\ IdlePt /\ IdleSys

\* handle_mmio for a naturally aligned access
Mmio(iss, fault_addr) ==
    /\ ~halted
    /\ ret.n < MaxTraps
    /\ fault_addr % (2 ^ SAS(iss)) = 0
    /\ \E r \in {handle_mmio(tf, mem, fault_addr, iss)} :
           /\ tf' = r.tf /\ mem' = r.mem /\ halted' = r.panicked
    /\ ret' = [op |-> "mmio", n |-> ret.n + 1, iss |-> iss, addr |-> fault_addr,
               frame |-> tf, mem |-> mem]
    /\ UNCHANGED <<heap, live, trail, sizeIn, binOut, loads, loaded, processes, last_id,
                   lock, stack, cpu, state, irq, controller, timer, mutex, boot, pagetable,
                   sysreg>>

NextMmio == \E iss \in Isses, a \in FaultAddrs : Mmio(iss, a)

SpecMmio == InitMmio /\ [][NextMmio]_vars

\* C10: for every ISS with WnR = 1, the low 8 << SAS bits of tf.x[SRT], masked
\* to 32 bits first when SF = 0, are written to the fault address at the width
\* SAS selects, whatever SSE is; every register of the trap frame is
\* unchanged and tf.ELR is advanced by exactly 4
C10_StoreEmulation ==
    (ret.op = "mmio" /\ WnR(ret.iss) = 1)
        => LET x == ret.frame.xn[SRT(ret.iss)]
               data == IF SF(ret.iss) = 0 THEN <<x[1], x[2], 0, 0>> ELSE x
               n == 2 ^ SAS(ret.iss)
           IN  /\ \A a \in Window :
                      mem[a] = IF a \in ret.addr..(ret.addr + n - 1)
                               THEN ByteOf(data, a - ret.addr)
                               ELSE ret.mem[a]
               /\ tf.xn = ret.frame.xn
               /\ tf.VTTBR = ret.frame.VTTBR
               /\ tf.ELR = Add64(ret.frame.ELR, 4)

\* the 32-bit store of 0xDEADBEEF from x5 to IO_BASE + 0x3000
C10_Witness ==
    /\ ret.op = "mmio" /\ WnR(ret.iss) = 1 /\ SAS(ret.iss) = 2 /\ SSE(ret.iss) = 0
    /\ SRT(ret.iss) = 5 /\ SF(ret.iss) = 0
    /\ ret.addr = IO_BASE + 12288
    /\ tf.xn[5] = <<48879, 57005, 0, 0>>
    /\ read_le(mem, IO_BASE + 12288, 4) = <<48879, 57005, 0, 0>>
    /\ ret.mem # mem

\* byte k of what a load of n bytes at addr from memory gives as a 64-bit
\* value: the bytes read, then the sign of the last one or zero
LoadedByte(memory, addr, n, sext, k) ==
    IF k < n THEN memory[addr + k]
    ELSE IF sext /\ memory[addr + n - 1] >= 128 THEN 255 ELSE 0

\* C11: for every ISS with WnR = 0 and SF = 1 and every access size, tf.x[SRT]
\* becomes the value read at the fault address, sign-extended from the access
\* width to 64 bits when SSE = 1 and zero-extended when SSE = 0; no other
\* register of the trap frame changes and tf.ELR is advanced by exactly 4
C11_LoadEmulation64 ==
    (ret.op = "mmio" /\ WnR(ret.iss) = 0 /\ SF(ret.iss) = 1)
        => /\ \A k \in 0..7 :
                  ByteOf(tf.xn[SRT(ret.iss)], k)
                      = LoadedByte(ret.mem, ret.addr, 2 ^ SAS(ret.iss), SSE(ret.iss) = 1, k)
           /\ \A i \in 0..31 : i # SRT(ret.iss) => tf.xn[i] = ret.frame.xn[i]
           /\ tf.VTTBR = ret.frame.VTTBR
           /\ tf.ELR = Add64(ret.frame.ELR, 4)

\* the sign-extending byte load of 0xFF from IO_BASE + 0x3004 into x3
C11_Witness ==
    /\ ret.op = "mmio" /\ WnR(ret.iss) = 0 /\ SF(ret.iss) = 1
    /\ SAS(ret.iss) = 0 /\ SSE(ret.iss) = 1 /\ SRT(ret.iss) = 3
    /\ ret.addr = IO_BASE + 12288 + 4 /\ ret.mem[ret.addr] = 255
    /\ tf.xn[3] = <<Limb - 1, Limb - 1, Limb - 1, Limb - 1>>
    /\ ret.frame.xn[3] # tf.xn[3]

\* C12: for every ISS with WnR = 0 and SF = 0, the low 32 bits of tf.x[SRT]
\* become the low 32 bits of the loaded, optionally sign-extended value, the
\* high 32 bits of tf.x[SRT] keep their prior contents, and tf.ELR is
\* advanced by exactly 4
C12_LoadEmulation32 ==
    (ret.op = "mmio" /\ WnR(ret.iss) = 0 /\ SF(ret.iss) = 0)
        => /\ \A k \in 0..3 :
                  ByteOf(tf.xn[SRT(ret.iss)], k)
                      = LoadedByte(ret.mem, ret.addr, 2 ^ SAS(ret.iss), SSE(ret.iss) = 1, k)
           /\ \A k \in 4..7 :
                  ByteOf(tf.xn[SRT(ret.iss)], k) = ByteOf(ret.frame.xn[SRT(ret.iss)], k)
           /\ tf.ELR = Add64(ret.frame.ELR, 4)

\* the 32-bit load of 0x80000001 from IO_BASE + 0x3008 into w7 over
\* 0xAAAAAAAA_CCCCCCCC
C12_Witness ==
    /\ ret.op = "mmio" /\ WnR(ret.iss) = 0 /\ SF(ret.iss) = 0
    /\ SAS(ret.iss) = 2 /\ SSE(ret.iss) = 0 /\ SRT(ret.iss) = 7
    /\ ret.addr = IO_BASE + 12288 + 8
    /\ ret.frame.xn[7] = <<52428, 52428, 43690, 43690>>
    /\ tf.xn[7] = <<1, 32768, 43690, 43690>>

-----------------------------------------------------------------------------
(* traps/syndrome.rs: decoding of ESR_EL2.  A 32-bit ESR is the pair       *)
(* <<bits 15..0, bits 31..16>>; an ISS of 25 bits is an integer.            *)

\* the remaining fields of DataAbortSyndrome
ISV(iss) == get_value(iss, 24, 24)

AR(iss) == get_value(iss, 14, 14)

SET(iss) == get_value(iss, 12, 11)

FnV(iss) == get_value(iss, 10, 10)

EA(iss) == get_value(iss, 9, 9)

CM(iss) == get_value(iss, 8, 8)

S1PTW(iss) == get_value(iss, 7, 7)

DFSC(iss) == get_value(iss, 5, 0)

\* Fault::from(val): [kind, other], other the payload of Fault::Other
Fault_from(val) ==
    LET x == (val \div 4) % 16
    IN  CASE x = 0 -> [kind |-> "AddressSize", other |-> 0]
          [] x = 1 -> [kind |-> "Translation", other |-> 0]
          [] x = 2 -> [kind |-> "AccessFlag", other |-> 0]
          [] x = 3 -> [kind |-> "Permission", other |-> 0]
          [] x = 4 \/ x = 8 -> [kind |-> "Alignment", other |-> 0]
          [] x = 12 -> [kind |-> "TlbConflict", other |-> 0]
          [] OTHER -> [kind |-> "Other", other |-> x]

\* a data abort that keeps only 24 bits of the ESR
esr_iss_24(esr) == esr[1] + (esr[2] % 256) * Limb

\* esr as u64 & 0x1FFFFFF
esr_iss(esr) == esr[1] + (esr[2] % 512) * Limb

\* a Syndrome: the variant and its payload; fields a variant lacks hold
\* "None", 0 or <<0, 0>>
Syn(variant) ==
    [variant |-> variant, kind |-> "None", other |-> 0, level |-> 0, iss |-> 0,
     imm |-> 0, esr |-> <<0, 0>>]

\* Syndrome::from(esr)
Syndrome_from(esr) ==
    LET ec == esr[2] \div 1024
        fault == Fault_from(esr[1] % 64)
        level == esr[1] % 4
    IN  CASE ec = 0 -> [Syn("Unknown") EXCEPT !.esr = esr]
          [] ec = 1 -> Syn("WfiWfe")
          [] ec = 7 -> Syn("SimdFp")
          [] ec = 14 -> Syn("IllegalExecutionState")
          [] ec = 17 \/ ec = 21 -> [Syn("Svc") EXCEPT !.imm = esr[1]]
          [] ec = 18 \/ ec = 22 -> [Syn("Hvc") EXCEPT !.imm = esr[1]]
          [] ec = 19 \/ ec = 23 -> [Syn("Smc") EXCEPT !.imm = esr[1]]
          [] ec = 24 -> Syn("MsrMrsSystem")
          [] ec = 32 \/ ec = 33 ->
                [Syn("InstructionAbort") EXCEPT !.kind = fault.kind,
                                                !.other = fault.other, !.level = level]
          [] ec = 34 -> Syn("PCAlignmentFault")
          [] ec = 36 \/ ec = 37 ->
                [Syn("DataAbort") EXCEPT !.kind = fault.kind, !.other = fault.other,
                                         !.level = level, !.iss = esr_iss(esr)]
          [] ec = 38 -> Syn("SpAlignmentFault")
          [] ec = 44 \/ ec = 40 -> Syn("TrappedFpu")
          [] ec = 47 -> Syn("SError")
          [] ec = 48 \/ ec = 49 \/ ec = 56 -> Syn("Breakpoint")
          [] ec = 50 \/ ec = 51 -> Syn("Step")
          [] ec = 52 \/ ec = 53 -> Syn("Watchpoint")
          [] ec = 60 -> [Syn("Brk") EXCEPT !.imm = esr[1]]
          [] OTHER -> [Syn("Other") EXCEPT !.esr = esr]

\* Syndrome::get_abort_info: the fault kind, "None" for a non-abort
get_abort_info(syndrome) ==
    IF syndrome.variant \in {"InstructionAbort", "DataAbort"} THEN syndrome.kind ELSE "None"

\* bits 15..0 of the ESRs decoded: every value of bits [5:2] with both values
\* of bits [1:0] exercised, and patterns setting SF, AR, SET, FnV, EA, CM,
\* S1PTW and WnR apart and together
EsrLows ==
    {4 * x + 3 : x \in 0..15} \cup {0, 6, 64, 128, 256, 512, 1024, 2048, 4096, 16384, 32768,
                                    Limb - 1}

\* bits 25..16 of the ESRs decoded: IL, ISV, SAS, SSE, SRT
EsrHighs == {0, 256, 512, 512 + 256 + 128 + 5, 64 + 32 + 31, 1023}

\* every exception class
Ecs == 0..63

InitSyn ==
    /\ \E lo \in EsrLows, hi \in EsrHighs, ec \in Ecs :
           ret = [op |-> "esr", esr |-> <<lo, ec * 1024 + hi>>]
    /\ heap = Allocator_new(HeapStart, HeapEnd) /\ live = {} /\ trail = <<>>
    /\ halted = FALSE
    /\ IdleBin /\ IdleVm /\ IdleTrap /\ IdleExc /\ IdleCpu /\ IdleState /\ IdleIrq /\ IdlePic
    /\ IdleTimer /\ IdleMutex /\ IdleBoot /\ IdlePt /\ IdleSys

\* Syndrome::from(esr)
Decode ==
    /\ ret.op = "esr"
    /\ ret' = [op |-> "syndrome", esr |-> ret.esr, syndrome |-> Syndrome_from(ret.esr)]
    /\ UNCHANGED <<heap, live, trail, halted, sizeIn, binOut, loads, loaded, processes,
                   last_id, tf, mem, lock, stack, cpu, state, irq, controller, timer, mutex,
                   boot, pagetable, sysreg>>

NextSyn == Decode

SpecSyn == InitSyn /\ [][NextSyn]_vars

\* bit b of a 32-bit ESR
EsrBit(esr, b) == IF b < 16 THEN (esr[1] \div 2 ^ b) % 2 ELSE (esr[2] \div 2 ^ (b - 16)) % 2

\* bits hi..lo of a 32-bit ESR, read bit by bit
EsrBits(esr, hi, lo) ==
    LET RECURSIVE sum(_)
        sum(b) == IF b > hi THEN 0 ELSE EsrBit(esr, b) * 2 ^ (b - lo) + sum(b + 1)
    IN  sum(lo)

\* the variants of the exception classes the decoder documents
VariantOfEc ==
    [ec \in Ecs |->
        IF ec = 0 THEN "Unknown" ELSE IF ec = 1 THEN "WfiWfe"
        ELSE IF ec = 7 THEN "SimdFp" ELSE IF ec = 14 THEN "IllegalExecutionState"
        ELSE IF ec \in {17, 21} THEN "Svc" ELSE IF ec \in {18, 22} THEN "Hvc"
        ELSE IF ec \in {19, 23} THEN "Smc" ELSE IF ec = 24 THEN "MsrMrsSystem"
        ELSE IF ec \in {32, 33} THEN "InstructionAbort"
        ELSE IF ec = 34 THEN "PCAlignmentFault"
        ELSE IF ec \in {36, 37} THEN "DataAbort" ELSE IF ec = 38 THEN "SpAlignmentFault"
        ELSE IF ec \in {40, 44} THEN "TrappedFpu" ELSE IF ec = 47 THEN "SError"
        ELSE IF ec \in {48, 49, 56} THEN "Breakpoint" ELSE IF ec \in {50, 51} THEN "Step"
        ELSE IF ec \in {52, 53} THEN "Watchpoint" ELSE IF ec = 60 THEN "Brk"
        ELSE "Other"]

\* the fault kinds of bits [5:2]
KindOfBits ==
    [x \in 0..15 |->
        IF x = 0 THEN "AddressSize" ELSE IF x = 1 THEN "Translation"
        ELSE IF x = 2 THEN "AccessFlag" ELSE IF x = 3 THEN "Permission"
        ELSE IF x \in {4, 8} THEN "Alignment" ELSE IF x = 12 THEN "TlbConflict"
        ELSE "Other"]

\* C20: Syndrome::from gives the variant of ec = esr >> 26, Other for an
\* undocumented ec; an instruction or data abort carries the fault kind of
\* ESR bits [5:2]; a DataAbort carries the low 25 bits of the ESR as its ISS,
\* and each DataAbortSyndrome field reads its documented bits of the ESR
C20_SyndromeDecoding ==
    ret.op = "syndrome"
        => LET esr == ret.esr
               syn == ret.syndrome
           IN  /\ syn.variant = VariantOfEc[EsrBits(esr, 31, 26)]
               /\ syn.variant \in {"InstructionAbort", "DataAbort"}
                      => syn.kind = KindOfBits[EsrBits(esr, 5, 2)]
               /\ syn.variant = "DataAbort"
                      => /\ syn.iss = EsrBits(esr, 24, 0)
                         /\ ISV(syn.iss) = EsrBit(esr, 24)
                         /\ SAS(syn.iss) = EsrBits(esr, 23, 22)
                         /\ SSE(syn.iss) = EsrBit(esr, 21)
                         /\ SRT(syn.iss) = EsrBits(esr, 20, 16)
                         /\ SF(syn.iss) = EsrBit(esr, 15)
                         /\ FnV(syn.iss) = EsrBit(esr, 10)
                         /\ CM(syn.iss) = EsrBit(esr, 8)
                         /\ WnR(syn.iss) = EsrBit(esr, 6)

\* a data abort (ec = 0b100100) with ISV and IL set, a 32-bit store from x5,
\* decoded as a translation fault
C20_Witness ==
    /\ ret.op = "syndrome" /\ ret.syndrome.variant = "DataAbort"
    /\ EsrBits(ret.esr, 31, 26) = 36
    /\ ret.syndrome.kind = "Translation"
    /\ ISV(ret.syndrome.iss) = 1 /\ SAS(ret.syndrome.iss) = 2 /\ SRT(ret.syndrome.iss) = 5
    /\ EsrBit(ret.esr, 25) = 1

-----------------------------------------------------------------------------
(* traps.rs: handle_exception.  An invocation is entered (the reentrancy   *)
(* guard is taken), then dispatched; it either returns to the guest or     *)
(* stays in the debug shell or in a panic for ever.  An exception taken    *)
(* while an invocation is on the stack enters handle_exception again.      *)

\* a guard that lets a second invocation in
enter_panics_late(old) == old > 1

\* ReentrantLock::enter: whether fetch_add's old value makes it panic
enter_panics(old) == old > 0

\* a leave that tests the value the counter has after fetch_sub
leave_panics_new_value(old) == old - 1 = 0

\* ReentrantLock::leave: whether fetch_sub's old value makes it panic
leave_panics(old) == old = 0

\* a handler that returns to the guest whatever happened
returns_always(outcome) == TRUE

\* whether handle_exception returns (and the guest is resumed) after the outcome
returns(outcome) == outcome \in {"lazy", "mmio", "irq"}

\* what a handler does that ends in the debug shell
ToShell(M, procs, frame, memory) ==
    [m |-> M, processes |-> procs, tf |-> frame, mem |-> memory, outcome |-> "shell",
     allocs |-> 0, emulated |-> 0, fatal |-> 1]

\* a handler that trusts FAR whatever FnV says
fault_address_far(iss, far, hpfar) == far

\* the address of a data abort: FAR, or the IPA of HPFAR when FAR is not valid
fault_address(iss, far, hpfar) == IF FnV(iss) # 0 THEN (hpfar \div 16) * 4096 ELSE far

\* handle_lower_el_synchronous:
\* [m, processes, tf, mem, outcome, allocs, emulated, fatal]
handle_lower_el_synchronous(M, procs, syndrome, far, hpfar, frame, memory) ==
    Only({IF lz.allocs = 1
          THEN [m |-> lz.m, processes |-> lz.processes, tf |-> lz.tf, mem |-> memory,
                outcome |-> IF lz.outcome = "panicked" THEN "panicked" ELSE "lazy",
                allocs |-> 1, emulated |-> 0, fatal |-> 0]
          ELSE IF syndrome.variant = "DataAbort" /\ syndrome.kind = "Translation"
          THEN IF ISV(syndrome.iss) = 0
               THEN [ToShell(Halt(M), procs, frame, memory) EXCEPT !.outcome = "panicked"]
               ELSE IF CM(syndrome.iss) = 0
               THEN LET fault_addr == fault_address(syndrome.iss, far, hpfar)
                    IN  IF fault_addr >= IO_BASE /\ fault_addr < IO_BASE_END
                        THEN Only({[m |-> IF r.panicked THEN Halt(M) ELSE M,
                                    processes |-> procs, tf |-> r.tf, mem |-> r.mem,
                                    outcome |-> IF r.panicked THEN "panicked" ELSE "mmio",
                                    allocs |-> 0, emulated |-> 1, fatal |-> 0] :
                                   r \in {handle_mmio(frame, memory, fault_addr,
                                                      syndrome.iss)}})
                        ELSE ToShell(M, procs, frame, memory)
               ELSE ToShell(M, procs, frame, memory)
          ELSE ToShell(M, procs, frame, memory) :
          lz \in {lazy_paging(M, procs, get_abort_info(syndrome), hpfar, frame)}})

\* the body of handle_exception after the guard is taken
handle_exception(M, procs, info, esr, far, hpfar, frame, memory) ==
    IF info.source = "LowerAArch64"
    THEN IF info.kind = "Synchronous"
         THEN handle_lower_el_synchronous(M, procs, Syndrome_from(esr), far, hpfar,
                                          frame, memory)
         ELSE IF info.kind = "Irq"
         THEN [ToShell(M, procs, frame, memory) EXCEPT !.outcome = "irq", !.fatal = 0]
         ELSE ToShell(M, procs, frame, memory)
    ELSE ToShell(M, procs, frame, memory)

\* entries into handle_exception in a run
MaxExc == 3

\* (source, kind) of the exceptions taken while the guest runs
Infos ==
    {[source |-> "LowerAArch64", kind |-> k] : k \in {"Synchronous", "Irq", "Fiq", "SError"}}
    \cup {[source |-> "LowerAArch32", kind |-> "Synchronous"],
          [source |-> "CurrentSpEl0", kind |-> "Irq"]}

\* (source, kind) of the exceptions taken from the hypervisor itself
NestedInfos == {[source |-> "CurrentSpElx", kind |-> k] : k \in {"Synchronous", "SError"}}

\* ESRs of a data abort with IL and ISV set, given bits 15..0 and SAS, SSE, SRT
DataAbortEsr(lo, sas, sse, srt) ==
    <<lo, 36 * 1024 + 512 + 256 + sas * 64 + sse * 32 + srt>>

\* the ESRs of lower-EL synchronous exceptions: data aborts on translation
\* (a w5 word store, a sign-extending x3 byte load, FnV set, CM set, ISV
\* clear), on access flag and on permission; an instruction abort on
\* translation; an HVC; an undocumented class
TrapEsrs ==
    {DataAbortEsr(64 + 7, 2, 0, 5), DataAbortEsr(32768 + 7, 0, 1, 3),
     DataAbortEsr(1024 + 64 + 7, 2, 0, 5), DataAbortEsr(256 + 7, 2, 0, 5),
     <<7, 36 * 1024 + 512>>, DataAbortEsr(11, 2, 0, 5), DataAbortEsr(64 + 15, 2, 0, 5),
     <<7, 32 * 1024 + 512>>, <<0, 22 * 1024 + 512>>, <<0, 63 * 1024>>}

\* FAR_EL2: a timer register, the first address past the window, guest RAM
Fars == {IO_BASE + 12288, IO_BASE_END, KERN_START_ADDR + 4}

\* HPFAR_EL2 for the IPAs: a loaded page, a page not yet mapped, a timer
\* register, the first address past guest memory
TrapHpfars ==
    {(ipa \div 4096) * 16 :
        ipa \in {0, KERN_START_ADDR + PAGE_SIZE, IO_BASE + 12288, GUEST_MAX_VM_SIZE}}

\* the machine after boot: one process loaded and added
Booted ==
    Only({[m |-> r.m, sched |-> Scheduler_add(<<>>, 0, r.p)] :
          r \in {Process_load([heap |-> Allocator_new(start, start + VmHeapPages * PAGE_SIZE),
                               live |-> {}, halted |-> FALSE], TRUE, 1, "ok") :
                 start \in VmHeapStarts}})

InitExc ==
    /\ \E b \in {Booted} :
           /\ heap = b.m.heap /\ live = b.m.live /\ halted = b.m.halted
           /\ processes = b.sched.processes /\ last_id = b.sched.last_id
           /\ tf = [ELR |-> b.sched.processes[1].ELR, VTTBR |-> b.sched.processes[1].VTTBR,
                    xn |-> [i \in 0..31 |-> IF i \in SRTs THEN <<52428, 52428, 43690, 43690>>
                                            ELSE U64(i)]]
    /\ mem \in MemImages
    /\ loads = 1 /\ loaded = {}
    /\ ret = [op |-> "none", n |-> 0]
    /\ trail = <<>>
    /\ IdleBin /\ IdleExc /\ IdleCpu /\ IdleState /\ IdleIrq /\ IdlePic /\ IdleTimer
    /\ IdleMutex /\ IdleBoot /\ IdlePt /\ IdleSys

\* an exception is taken and handle_exception takes DOUBLE_FAULT_LOCK
Enter(info, esr, far, hpfar) ==
    /\ ret.n < MaxExc
    /\ lock' = lock + 1
    /\ stack' = Append(stack, [info |-> info, esr |-> esr, far |-> far, hpfar |-> hpfar,
                               pos |-> IF enter_panics(lock) THEN "panicked" ELSE "entered"])
    /\ halted' = (halted \/ enter_panics(lock))
    /\ ret' = [op |-> "enter", n |-> ret.n + 1, before |-> lock, depth |-> Len(stack),
               panicked |-> enter_panics(lock)]
    /\ UNCHANGED <<heap, live, trail, sizeIn, binOut, loads, loaded, processes, last_id,
                   tf, mem, cpu, state, irq, controller, timer, mutex, boot, pagetable, sysreg>>

\* the invocation on top of the stack runs to its return, the shell or a panic
Dispatch ==
    /\ stack # <<>>
    /\ stack[Len(stack)].pos = "entered"
    /\ LET top == stack[Len(stack)]
       IN  \E M \in {Machine} :
           \E r \in {handle_exception(M, processes, top.info, top.esr, top.far, top.hpfar,
                                      tf, mem)} :
               /\ heap' = r.m.heap /\ live' = r.m.live
               /\ processes' = r.processes /\ tf' = r.tf /\ mem' = r.mem
               /\ IF returns(r.outcome)
                  THEN /\ lock' = lock - 1
                       /\ stack' = SubSeq(stack, 1, Len(stack) - 1)
                       /\ halted' = (r.m.halted \/ leave_panics(lock))
                  ELSE /\ lock' = lock
                       /\ stack' = [stack EXCEPT ![Len(stack)].pos =
                                        IF r.outcome = "shell" THEN "shell" ELSE "panicked"]
                       /\ halted' = TRUE
               /\ ret' = [op |-> "exception", n |-> ret.n, info |-> top.info, esr |-> top.esr,
                          far |-> top.far, hpfar |-> top.hpfar, frame |-> tf,
                          outcome |-> r.outcome, allocs |-> r.allocs,
                          emulated |-> r.emulated, fatal |-> r.fatal,
                          returned |-> returns(r.outcome)]
    /\ UNCHANGED <<trail, sizeIn, binOut, loads, loaded, last_id, cpu, state, irq, controller,
                   timer, mutex, boot, pagetable, sysreg>>

\* the operator types reboot (or ^R) into the debug shell: panic!("Goodnight")
ShellReboot ==
    /\ stack # <<>>
    /\ stack[Len(stack)].pos = "shell"
    /\ stack' = [stack EXCEPT ![Len(stack)].pos = "panicked"]
    /\ ret' = [op |-> "reboot", n |-> ret.n]
    /\ UNCHANGED <<heap, live, trail, halted, sizeIn, binOut, loads, loaded, processes,
                   last_id, tf, mem, lock, cpu, state, irq, controller, timer, mutex, boot,
                   pagetable, sysreg>>

NextExc ==
    \/ \E e \in TrapEsrs, f \in Fars, h \in TrapHpfars :
           /\ stack = <<>> /\ ~halted
           /\ Enter([source |-> "LowerAArch64", kind |-> "Synchronous"], e, f, h)
    \/ \E i \in Infos :
           /\ stack = <<>> /\ ~halted
           /\ i # [source |-> "LowerAArch64", kind |-> "Synchronous"]
           /\ Enter(i, <<0, 0>>, 0, 0)
    \/ \E i \in NestedInfos :
           /\ stack # <<>>
           /\ Enter(i, <<0, 37 * 1024 + 512>>, 0, 0)
    \/ Dispatch
    \/ ShellReboot

SpecExc == InitExc /\ [][NextExc]_vars

-----------------------------------------------------------------------------
(* Claims about exception routing *)

LowerSync == [source |-> "LowerAArch64", kind |-> "Synchronous"]

\* the conditions of MMIO emulation, read off the raw ESR, FAR and HPFAR
IsMmioCase(esr, far, hpfar) ==
    /\ EsrBits(esr, 31, 26) \in {36, 37}
    /\ EsrBits(esr, 5, 2) = 1
    /\ EsrBit(esr, 24) = 1
    /\ EsrBit(esr, 8) = 0
    /\ LET addr == IF EsrBit(esr, 10) = 1 THEN (hpfar \div 16) * 4096 ELSE far
       IN  addr >= IO_BASE /\ addr < IO_BASE_END

\* C13: a lower-EL synchronous exception for which the lazy-allocation branch
\* is not taken is emulated as MMIO exactly when it is a data abort on a
\* translation fault with ISV = 1, CM = 0 and its fault address (FAR, or the
\* IPA of HPFAR when FnV = 1) in [IO_BASE, IO_BASE_END), and ends in the shell
\* or a panic otherwise; every such exception is handled by exactly one of
\* lazy allocation, MMIO emulation and the fatal path
C13_Routing ==
    (ret.op = "exception" /\ ret.info = LowerSync)
        => /\ ret.allocs + ret.emulated + ret.fatal = 1
           /\ ret.allocs = 0
                  => /\ ret.emulated = 1 <=> IsMmioCase(ret.esr, ret.far, ret.hpfar)
                     /\ ret.emulated = 1 => ret.outcome = "mmio" /\ ret.returned
                     /\ ret.emulated = 0
                            => /\ ret.outcome \in {"shell", "panicked"}
                               /\ ~ret.returned
                               /\ tf = ret.frame

\* a data abort with FnV = 1 whose FAR is guest RAM and whose HPFAR is a timer
\* register has been emulated
C13_Witness ==
    /\ ret.op = "exception" /\ ret.info = LowerSync
    /\ ret.emulated = 1 /\ ret.outcome = "mmio"
    /\ EsrBit(ret.esr, 10) = 1
    /\ ret.far = KERN_START_ADDR + 4
    /\ tf.ELR = Add64(ret.frame.ELR, 4)

\* the last exception dispatched was classified as fatal
FatalClassified ==
    /\ ret.op = "exception"
    /\ \/ ret.info.source # "LowerAArch64"
       \/ ret.info.kind \in {"Fiq", "SError"}
       \/ ret.info = LowerSync /\ ret.allocs = 0 /\ ret.emulated = 0

\* C14: once an exception is classified as fatal, handle_exception has not
\* returned and never returns: from then on its invocation stays on the stack
\* with the guard held and the hypervisor stopped, so the guest is never resumed
C14_FatalNeverReturns ==
    [](FatalClassified => [](stack # <<>> /\ halted /\ lock > 0))

\* a fatal lower-EL SError sits in the debug shell
C14_Witness ==
    /\ FatalClassified
    /\ ret.info = [source |-> "LowerAArch64", kind |-> "SError"]
    /\ stack # <<>> /\ stack[1].pos = "shell"

\* C15: an entry into handle_exception made while an earlier invocation has
\* not exited finds the counter non-zero and panics; the counter is non-zero
\* exactly while an invocation has not exited, and at most one invocation is
\* ever past the guard
C15_NestedEntryPanics ==
    /\ lock > 0 <=> stack # <<>>
    /\ \A i \in 1..Len(stack) : i > 1 => stack[i].pos = "panicked"
    /\ (ret.op = "enter" /\ ret.depth > 0)
           => /\ ret.before > 0 /\ ret.panicked /\ halted
              /\ stack[Len(stack)].pos = "panicked"

\* a third entry, nested in an entry that itself panicked inside a running handler
C15_Witness ==
    /\ ret.op = "enter" /\ ret.depth = 2 /\ ret.panicked
    /\ stack[1].pos = "entered"
    /\ lock = 3

-----------------------------------------------------------------------------
(* process/scheduler.rs: context switches.  A scheduler is                 *)
(* [processes, last_id, panicked].                                         *)

\* unimplemented!(): a panic
unimplemented(S) == [S EXCEPT !.panicked = TRUE]

\* Scheduler::schedule_out(new_state, tf)
schedule_out(S, new_state, frame) == unimplemented(S)

\* Scheduler::switch_to(tf): [sched, tf, id]
switch_to(S, frame) == [sched |-> unimplemented(S), tf |-> frame, id |-> PANICKED]

\* Scheduler::kill(tf): [sched, tf, id]
kill(S, frame) == [sched |-> unimplemented(S), tf |-> frame, id |-> PANICKED]

\* GlobalScheduler::switch(new_state, tf): schedule_out, then switch_to until
\* it finds a process
switch(S, new_state, frame) ==
    Only({IF s1.panicked THEN [sched |-> s1, tf |-> frame, id |-> PANICKED]
          ELSE switch_to(s1, frame) :
          s1 \in {schedule_out(S, new_state, frame)}})

\* the states a process is switched out in
States == {"Ready", "Dead"}

\* the scheduler of the state
Sched == [processes |-> processes, last_id |-> last_id, panicked |-> halted]

\* the trap frame of the guest at the front of the queue
FrontFrame ==
    IF processes = <<>> THEN NoTf
    ELSE [ELR |-> processes[1].ELR, VTTBR |-> processes[1].VTTBR, xn |-> <<>>]

\* SCHEDULER.switch(new_state, tf)
Switch(new_state) ==
    /\ ~halted
    /\ \E r \in {switch(Sched, new_state, FrontFrame)} :
           /\ processes' = r.sched.processes /\ last_id' = r.sched.last_id
           /\ halted' = r.sched.panicked
           /\ tf' = r.tf
           /\ ret' = [op |-> "switch", before |-> processes, id |-> r.id, live |-> live]
    /\ UNCHANGED <<heap, live, trail, sizeIn, binOut, loads, loaded, mem, lock, stack, cpu,
                   state, irq, controller, timer, mutex, boot, pagetable, sysreg>>

\* SCHEDULER.kill(tf)
Kill ==
    /\ ~halted
    /\ \E r \in {kill(Sched, FrontFrame)} :
           /\ processes' = r.sched.processes /\ last_id' = r.sched.last_id
           /\ halted' = r.sched.panicked
           /\ tf' = r.tf
           /\ ret' = [op |-> "kill", before |-> processes, id |-> r.id, live |-> live]
    /\ UNCHANGED <<heap, live, trail, sizeIn, binOut, loads, loaded, mem, lock, stack, cpu,
                   state, irq, controller, timer, mutex, boot, pagetable, sysreg>>

NextSched ==
    \/ \E a \in BOOLEAN, n \in ImagePages,
          o \in {"ok", "open_failed", "read_failed"} : Load(a, n, o)
    \/ \E p \in loaded : Add(p)
    \/ \E st \in States : Switch(st)
    \/ Kill

SpecSched == InitVm /\ [][NextSched]_vars

\* C16: a switch(Ready, tf) with N >= 1 processes queued returns normally,
\* leaves the outgoing process at the back of the queue and the others in
\* order, restores tf from the new front process and returns its VMID, so
\* that N switches visit each process once in insertion order
C16_RoundRobin ==
    (ret.op = "switch" /\ Len(ret.before) >= 1)
        => /\ ~halted
           /\ processes = Append(Tail(ret.before), Head(ret.before))
           /\ ret.id = get_vmid(processes[1].VTTBR)
           /\ tf.VTTBR = processes[1].VTTBR

\* C17: a kill with N >= 1 processes queued returns normally, removes the
\* current process from the queue leaving the others in order, and gives
\* its page table and guest pages back to the allocator
C17_KillReleases ==
    (ret.op = "kill" /\ Len(ret.before) >= 1)
        => /\ ~halted
           /\ processes = Tail(ret.before)
           /\ ret.id = get_vmid(Head(ret.before).VTTBR)
           /\ \A b \in ret.live :
                  (\/ b.ptr \in {Head(ret.before).pt, Head(ret.before).gpt,
                                 Head(ret.before).context}
                   \/ \E x \in DOMAIN Head(ret.before).vmap :
                          /\ is_valid(Head(ret.before).vmap[x])
                          /\ b.ptr = entry_page(Head(ret.before).vmap[x]))
                      => b \notin live

-----------------------------------------------------------------------------
(* Scheduler::add up to the end of the VMID space.  Only the page-table    *)
(* base of a process matters here: a process is given by where its         *)
(* PageTable lies, and its guest pages are left out.                       *)

\* calls of Scheduler::add in a run
MaxAdds == 256

\* the first processes come from either of two regions, the rest from the first
VariedAdds == 3

\* the process whose PageTable is the k-th 64 KiB-aligned block of region r
ProcessAt(k, r) ==
    LET pt == (16 + 4096 * r + 4 * k) * PAGE_SIZE
    IN  [pt |-> pt, gpt |-> pt + 3 * PAGE_SIZE, context |-> pt + 3 * PAGE_SIZE + 16,
         vmap |-> EmptyTable, VTTBR |-> U64(pt), ELR |-> U64(KERN_START_ADDR)]

InitVmid ==
    /\ heap = Allocator_new(HeapStart, HeapEnd) /\ live = {} /\ trail = <<>>
    /\ ret = NoOp
    /\ halted = FALSE
    /\ IdleBin /\ IdleVm /\ IdleTrap /\ IdleExc /\ IdleCpu /\ IdleState /\ IdleIrq /\ IdlePic
    /\ IdleTimer /\ IdleMutex /\ IdleBoot /\ IdlePt /\ IdleSys

\* SCHEDULER.add(process) for a process just loaded
AddNext(r) ==
    /\ ~halted
    /\ Len(processes) < MaxAdds
    /\ r = 0 \/ Len(processes) < VariedAdds
    /\ \E a \in {Scheduler_add(processes, last_id, ProcessAt(Len(processes), r))} :
           /\ processes' = a.processes /\ last_id' = a.last_id /\ halted' = a.panicked
    /\ ret' = [op |-> "add", vmid |-> last_id]
    /\ UNCHANGED <<heap, live, trail, sizeIn, binOut, loads, loaded, tf, mem, lock, stack, cpu,
                   state, irq, controller, timer, mutex, boot, pagetable, sysreg>>

NextVmid == \E r \in 0..1 : AddNext(r)

SpecVmid == InitVmid /\ [][NextVmid]_vars

-----------------------------------------------------------------------------
(* World switch.  Memory is a function from word addresses (one word is 8  *)
(* bytes) to values: the words of the current process's TrapFrame from     *)
(* FrameBase, and the top of the hypervisor stack.  A core is              *)
(* [mode, SP, x, q, sys, ELR_EL2, VTTBR_EL2].  Values are opaque patterns. *)

\* the fields of TrapFrame before qn, in declaration order
FrameFields ==
    <<"VTTBR", "ELR", "TTBR0_EL1", "TTBR1_EL1", "SP_EL0", "SP_EL1", "SCTLR_EL1",
      "VBAR_EL1", "TPIDR_EL0", "TPIDR_EL1", "SPSR_EL1", "_pad1">>

\* the banked EL1 registers among them
SysRegs ==
    {"TTBR0_EL1", "TTBR1_EL1", "SP_EL0", "SP_EL1", "SCTLR_EL1", "VBAR_EL1",
     "TPIDR_EL0", "TPIDR_EL1", "SPSR_EL1"}

\* the word of the #[repr(C)] TrapFrame a scalar field lies at
FieldWord(name) == (CHOOSE i \in 1..Len(FrameFields) : FrameFields[i] = name) - 1

\* the first word of qn[i]: u128, after the twelve u64 fields
QnWord(i) == Len(FrameFields) + 2 * i

\* the word of xn[i]: after qn[32]
XnWord(i) == Len(FrameFields) + 2 * 32 + i

\* size_of::<TrapFrame>() in words
FrameWords == Len(FrameFields) + 2 * 32 + 32

\* word address of the current process's TrapFrame
FrameBase == 0

\* word address param::KERN_STACK_BASE stands for; the stack grows down from it
StackBase == FrameWords + 8

\* the TrapFrame as Rust reads it from memory
TrapFrameView(memory) ==
    [scalar |-> [n \in {FrameFields[i] : i \in 1..Len(FrameFields)} |->
                     memory[FrameBase + FieldWord(n)]],
     qn |-> [i \in 0..31 |-> <<memory[FrameBase + QnWord(i)],
                               memory[FrameBase + QnWord(i) + 1]>>],
     xn |-> [i \in 0..31 |-> memory[FrameBase + XnWord(i)]]]

\* context_restore with SP at the frame: reloads the frame in its documented
\* order up to x27 and leaves SP at the slot of x28
context_restore(c, memory) ==
    [c EXCEPT !.VTTBR_EL2 = memory[c.SP],
              !.ELR_EL2 = memory[c.SP + 1],
              !.sys = [n \in SysRegs |->
                          memory[c.SP + (CHOOSE i \in 1..Len(FrameFields) :
                                             FrameFields[i] = n) - 1]],
              !.q = [i \in 0..31 |-> <<memory[c.SP + 12 + 2 * i],
                                       memory[c.SP + 12 + 2 * i + 1]>>],
              !.x = [i \in 0..30 |-> IF i <= 27 THEN memory[c.SP + 76 + i] ELSE @[i]],
              !.SP = c.SP + 76 + 28]

\* a tail that pops x29 before x28
start_tail_swapped(c, memory) ==
    [c EXCEPT !.x = [@ EXCEPT ![29] = memory[c.SP], ![28] = memory[c.SP + 1],
                              ![30] = memory[c.SP + 2]],
              !.SP = StackBase,
              !.mode = "guest"]

\* GlobalScheduler::start after context_restore: ldp x28, x29, [SP], #16;
\* ldp lr, xzr, [SP], #16; mov SP, KERN_STACK_BASE; eret
start_tail(c, memory) ==
    [c EXCEPT !.x = [@ EXCEPT ![28] = memory[c.SP], ![29] = memory[c.SP + 1],
                              ![30] = memory[c.SP + 2]],
              !.SP = StackBase,
              !.mode = "guest"]

\* the entry stub: x28/x29 and lr/xzr are pushed on the hypervisor stack, SP
\* is set to the frame: [cpu, mem]
entry_stub(c, memory) ==
    [cpu |-> [c EXCEPT !.SP = FrameBase, !.mode = "el2"],
     mem |-> [memory EXCEPT ![c.SP - 1] = 0, ![c.SP - 2] = c.x[30],
                            ![c.SP - 3] = c.x[29], ![c.SP - 4] = c.x[28]],
     saved |-> c.SP - 4]

\* context_save with SP at the frame: writes the frame in its documented
\* order, x28, x29, lr and the xzr slot from what the stub pushed at saved
context_save(c, memory, saved) ==
    [a \in DOMAIN memory |->
        LET k == a - c.SP
        IN  IF k < 0 \/ k >= FrameWords THEN memory[a]
            ELSE IF k = 0 THEN c.VTTBR_EL2
            ELSE IF k = 1 THEN c.ELR_EL2
            ELSE IF k < 11 THEN c.sys[FrameFields[k + 1]]
            ELSE IF k = 11 THEN memory[a]
            ELSE IF k < 76 THEN c.q[(k - 12) \div 2][((k - 12) % 2) + 1]
            ELSE IF k < 76 + 28 THEN c.x[k - 76]
            ELSE memory[saved + (k - 76 - 28)]]

\* world switches in a run
MaxSwitches == 2

\* the known patterns: every word of the frame differs from every other
Seeds == {1, 2}

Pattern(seed, word) == 1000 * seed + word

\* values a handler or the guest writes
NewValues == {7, 8}

\* the fields a handler writes: the return address and two registers
HandlerFields == {FieldWord("ELR"), XnWord(3), XnWord(28)}

\* the registers the guest changes
GuestRegs == {0, 29}

InitSwitch ==
    /\ \E seed \in Seeds :
           mem = [a \in 0..(StackBase - 1) |->
                      IF a < FrameWords THEN Pattern(seed, a) ELSE 0]
    /\ cpu = [mode |-> "el2", SP |-> StackBase, x |-> [i \in 0..30 |-> 0],
              q |-> [i \in 0..31 |-> <<0, 0>>], sys |-> [n \in SysRegs |-> 0],
              ELR_EL2 |-> 0, VTTBR_EL2 |-> 0]
    /\ ret = [op |-> "none", n |-> 0, ran |-> FALSE]
    /\ heap = Allocator_new(HeapStart, HeapEnd) /\ live = {} /\ trail = <<>>
    /\ halted = FALSE /\ tf = NoTf
    /\ IdleBin /\ IdleVm /\ IdleExc /\ IdleState /\ IdleIrq /\ IdlePic /\ IdleTimer /\ IdleMutex
    /\ IdleBoot /\ IdlePt /\ IdleSys

\* a handler writes a field of the trap frame it was handed
HandlerWrite(word, v) ==
    /\ cpu.mode = "el2"
    /\ mem' = [mem EXCEPT ![FrameBase + word] = v]
    /\ ret' = [op |-> "write", n |-> ret.n, ran |-> ret.ran]
    /\ UNCHANGED <<heap, live, trail, halted, sizeIn, binOut, loads, loaded, processes,
                   last_id, tf, lock, stack, cpu, state, irq, controller, timer, mutex, boot,
                   pagetable, sysreg>>

\* SP is set to the frame; context_restore, the pops and eret
Restore ==
    /\ cpu.mode = "el2"
    /\ ret.n < MaxSwitches
    /\ cpu' = start_tail(context_restore([cpu EXCEPT !.SP = FrameBase], mem), mem)
    /\ ret' = [op |-> "restore", n |-> ret.n + 1, ran |-> FALSE,
               before |-> TrapFrameView(mem)]
    /\ UNCHANGED <<heap, live, trail, halted, sizeIn, binOut, loads, loaded, processes,
                   last_id, tf, mem, lock, stack, state, irq, controller, timer, mutex, boot,
                   pagetable, sysreg>>

\* the guest executes an instruction that changes a register
GuestStep(i, v) ==
    /\ cpu.mode = "guest"
    /\ cpu' = [cpu EXCEPT !.x[i] = v]
    /\ ret' = [ret EXCEPT !.op = "guest", !.ran = TRUE]
    /\ UNCHANGED <<heap, live, trail, halted, sizeIn, binOut, loads, loaded, processes,
                   last_id, tf, mem, lock, stack, state, irq, controller, timer, mutex, boot,
                   pagetable, sysreg>>

\* an exception from the guest at return address elr: the stub and context_save
Trap(elr) ==
    /\ cpu.mode = "guest"
    /\ \E e \in {entry_stub([cpu EXCEPT !.ELR_EL2 = elr], mem)} :
           /\ mem' = context_save(e.cpu, e.mem, e.saved)
           /\ cpu' = [e.cpu EXCEPT !.SP = e.saved]
    /\ ret' = [ret EXCEPT !.op = "save"]
    /\ UNCHANGED <<heap, live, trail, halted, sizeIn, binOut, loads, loaded, processes,
                   last_id, tf, lock, stack, state, irq, controller, timer, mutex, boot,
                   pagetable, sysreg>>

NextSwitch ==
    \/ \E w \in HandlerFields, v \in NewValues : HandlerWrite(w, v)
    \/ Restore
    \/ \E i \in GuestRegs, v \in NewValues : GuestStep(i, v)
    \/ \E elr \in NewValues \cup {cpu.ELR_EL2} : Trap(elr)

SpecSwitch == InitSwitch /\ [][NextSwitch]_vars

\* C19: a trap frame that is restored and, with no guest instruction in
\* between, saved again is equal to the original in VTTBR, the banked EL1
\* registers, q0..q31 and x0..x30; ELR may differ
C19_RoundTrip ==
    (ret.op = "save" /\ ~ret.ran)
        => LET now == TrapFrameView(mem)
           IN  /\ \A n \in SysRegs \cup {"VTTBR"} : now.scalar[n] = ret.before.scalar[n]
               /\ now.qn = ret.before.qn
               /\ \A i \in 0..30 : now.xn[i] = ret.before.xn[i]

\* the second round trip of a run, of a frame whose x3 and x28 a handler wrote
C19_Witness ==
    /\ ret.op = "save" /\ ~ret.ran /\ ret.n = 2
    /\ ret.before.xn[3] = 7 /\ ret.before.xn[28] = 8
    /\ TrapFrameView(mem).xn[28] = 8
    /\ ret.before.scalar["SP_EL0"] = Pattern(2, 4)
    /\ ret.before.qn[31] = <<Pattern(2, 74), Pattern(2, 75)>>

-----------------------------------------------------------------------------
(* Page-table entries (vmsa.rs, vm/pagetable.rs).  An entry is a 64-bit    *)
(* word of four limbs; a field is <<highest bit, lowest bit>>.             *)

\* bit b of a 64-bit word
Bit64(v, b) == (v[(b \div 16) + 1] \div 2 ^ (b % 16)) % 2

RECURSIVE LimbOfBits(_, _, _)
\* the value of the k lowest bits of limb i of a word given by its bits
LimbOfBits(bits, i, k) ==
    IF k = 0 THEN 0
    ELSE LimbOfBits(bits, i, k - 1) + bits[16 * (i - 1) + k - 1] * 2 ^ (k - 1)

\* the 64-bit word with the given bits
WordOfBits(bits) ==
    <<LimbOfBits(bits, 1, 16), LimbOfBits(bits, 2, 16), LimbOfBits(bits, 3, 16),
      LimbOfBits(bits, 4, 16)>>

\* v >> n and v << n on u64
shr(v, n) ==
    Only({WordOfBits([b \in 0..63 |-> IF b + n <= 63 THEN Bit64(w, b + n) ELSE 0]) :
          w \in {v}})

shl(v, n) ==
    Only({WordOfBits([b \in 0..63 |-> IF b >= n THEN Bit64(w, b - n) ELSE 0]) :
          w \in {v}})

\* defbit!(RawEntry, ...)
RawEntry ==
    [ADDR |-> <<47, 16>>, AF |-> <<10, 10>>, SH |-> <<9, 8>>, AP |-> <<7, 6>>,
     NS |-> <<5, 5>>, ATTR |-> <<4, 2>>, TYPE |-> <<1, 1>>, VALID |-> <<0, 0>>]

\* defbit!(RawStage2Entry, ...)
RawStage2Entry ==
    [ADDR |-> <<47, 16>>, AF |-> <<10, 10>>, SH |-> <<9, 8>>, S2AP |-> <<7, 6>>,
     CACHE |-> <<5, 4>>, ATTR |-> <<3, 2>>, TYPE |-> <<1, 1>>, VALID |-> <<0, 0>>]

\* EntryPerm::KERN_RW
KERN_RW == 0

\* set_value(val, FIELD) of a defbit! type: the field's bits become the low
\* bits of val, every other bit is kept
set_value(e, val, field) ==
    Only({WordOfBits([b \in 0..63 |-> IF b >= field[2] /\ b <= field[1]
                                      THEN Bit64(w[2], b - field[2])
                                      ELSE Bit64(w[1], b)]) :
          w \in {<<e, val>>}})

\* get_value(FIELD) of a defbit! type: the field, shifted down to bit 0
field_value(e, field) ==
    Only({WordOfBits([b \in 0..63 |-> IF b <= field[1] - field[2]
                                      THEN Bit64(w, b + field[2]) ELSE 0]) :
          w \in {e}})

\* an entry whose SH field is the one of a device whatever the flag
new_l3pte_device_sh(va, device) ==
    set_value(set_value(set_value(set_value(set_value(set_value(set_value(Zero64,
        shr(va, PAGE_ALIGN), RawEntry.ADDR),
        U64(1), RawEntry.VALID),
        U64(1), RawEntry.TYPE),
        U64(IF device THEN 1 ELSE 0), RawEntry.ATTR),
        U64(KERN_RW), RawEntry.AP),
        U64(2), RawEntry.SH),
        U64(1), RawEntry.AF)

\* VisorPageTable::new_l3pte
new_l3pte(va, device) ==
    set_value(set_value(set_value(set_value(set_value(set_value(set_value(Zero64,
        shr(va, PAGE_ALIGN), RawEntry.ADDR),
        U64(1), RawEntry.VALID),
        U64(1), RawEntry.TYPE),
        U64(IF device THEN 1 ELSE 0), RawEntry.ATTR),
        U64(KERN_RW), RawEntry.AP),
        U64(IF device THEN 2 ELSE 3), RawEntry.SH),
        U64(1), RawEntry.AF)

\* how many pages GuestPageTable::alloc is asked for
MaxPteAllocs == 2

\* 64 KiB-aligned physical addresses below 2^48: RAM, the peripherals, the
\* highest page, and patterns in both limbs of ADDR
PhysAddrs ==
    {<<0, a, b, 0>> : a \in {0, 1, 2, IO_BASE \div Limb, 32768, 65535},
                      b \in {0, 1, 43690, 65535}}

\* guest addresses in both L3 tables
PteVas == {0, PAGE_SIZE, 2 ^ 29, 2 ^ 29 + 5 * PAGE_SIZE}

InitPte ==
    /\ \E pa \in PhysAddrs, device \in BOOLEAN :
           ret = [op |-> "none", pa |-> pa, device |-> device, entry |-> Zero64,
                  vmap |-> EmptyTable, va |-> 0, page |-> NULL, n |-> 0]
    /\ \E start \in VmHeapStarts :
           heap = Allocator_new(start, start + (MaxPteAllocs + 2) * PAGE_SIZE)
    /\ live = {} /\ trail = <<>> /\ halted = FALSE
    /\ IdleBin /\ IdleVm /\ IdleTrap /\ IdleExc /\ IdleCpu /\ IdleState /\ IdleIrq /\ IdlePic
    /\ IdleTimer /\ IdleMutex /\ IdleBoot /\ IdlePt /\ IdleSys

\* VisorPageTable::new builds the entry of one page
NewL3pte ==
    /\ ret.op = "none"
    /\ ret' = [ret EXCEPT !.op = "new_l3pte", !.entry = new_l3pte(ret.pa, ret.device)]
    /\ UNCHANGED <<heap, live, trail, halted, sizeIn, binOut, loads, loaded, processes,
                   last_id, tf, mem, lock, stack, cpu, state, irq, controller, timer, mutex,
                   boot, pagetable, sysreg>>

\* GuestPageTable::alloc(va, perm)
GuestAlloc(va) ==
    /\ ~halted
    /\ ret.n < MaxPteAllocs
    /\ \E r \in {GuestPageTable_alloc(Machine, ret.vmap, va)} :
           /\ heap' = r.m.heap /\ live' = r.m.live /\ halted' = r.m.halted
           /\ ret' = [ret EXCEPT !.vmap = r.vmap, !.va = va, !.n = @ + 1,
                                 !.page = IF r.m.live = live THEN NULL
                                          ELSE Only({b.ptr : b \in r.m.live \ live})]
    /\ UNCHANGED <<trail, sizeIn, binOut, loads, loaded, processes, last_id, tf, mem,
                   lock, stack, cpu, state, irq, controller, timer, mutex, boot, pagetable,
                   sysreg>>

NextPte ==
    \/ NewL3pte
    \/ \E va \in PteVas : GuestAlloc(va)

SpecPte == InitPte /\ [][NextPte]_vars

\* the fields of a stage-1 entry and of a stage-2 entry, as numbers
Stage1Field(e, name) == ToInt(field_value(e, RawEntry[name]))

Stage2Field(e, name) == ToInt(field_value(e, RawStage2Entry[name]))

\* C21: the stage-1 entry that new_l3pte builds for a 64 KiB-aligned physical
\* address decodes to that address (ADDR << PAGE_ALIGN) with AP = 0b00, AF = 1,
\* VALID = 1, and ATTR = 0b000, SH = 0b11 for RAM, ATTR = 0b001, SH = 0b10 for a
\* device; every stage-2 entry installed by GuestPageTable::alloc decodes to the
\* address of a page that is allocated (the page of the call, for the entry
\* of the latest call, unless that call panicked) with S2AP = 0b11, SH = 0b11,
\* CACHE = 0b11, ATTR = 0b11, VALID = 1.
C21_EntryEncoding ==
    /\ ret.op = "new_l3pte" =>
           /\ shl(field_value(ret.entry, RawEntry.ADDR), PAGE_ALIGN) = ret.pa
           /\ Stage1Field(ret.entry, "AP") = 0
           /\ Stage1Field(ret.entry, "AF") = 1
           /\ Stage1Field(ret.entry, "VALID") = 1
           /\ Stage1Field(ret.entry, "ATTR") = (IF ret.device THEN 1 ELSE 0)
           /\ Stage1Field(ret.entry, "SH") = (IF ret.device THEN 2 ELSE 3)
    /\ \A s \in DOMAIN ret.vmap :
           LET e == U64(ret.vmap[s])
               page == shl(field_value(e, RawStage2Entry.ADDR), PAGE_ALIGN)
           IN  /\ FitsInt(page)
               /\ [ptr |-> ToInt(page), size |-> PAGE_SIZE, align |-> PAGE_SIZE] \in live
               /\ (~halted /\ s = Slot(locate(ret.va))) => ToInt(page) = ret.page
               /\ Stage2Field(e, "S2AP") = 3
               /\ Stage2Field(e, "SH") = 3
               /\ Stage2Field(e, "CACHE") = 3
               /\ Stage2Field(e, "ATTR") = 3
               /\ Stage2Field(e, "VALID") = 1

\* C21 witness: a device entry for a high address was built and two pages
\* were installed in the guest's table, one in each L3 table
C21_Witness ==
    /\ ret.op = "new_l3pte" /\ ret.device /\ ret.pa[3] = 43690
    /\ \E s, t \in DOMAIN ret.vmap : s < L3_ENTRIES /\ t >= L3_ENTRIES

-----------------------------------------------------------------------------
(* Process::is_ready (process/process.rs).  A state is [tag, left, writes]: *)
(* for Waiting(func), func is a closure that answers true once it has been *)
(* polled left times, and that may write a state into the process it is     *)
(* given; left and writes mean nothing for the other states.                *)

\* State::Ready, State::Running, State::Dead
Plain(tag) == [tag |-> tag, left |-> 0, writes |-> "none"]

\* State::Waiting(func)
Waiting(left, writes) == [tag |-> "Waiting", left |-> left, writes |-> writes]

\* one call of the closure of Waiting on a process whose state it sees as s:
\* [result, func, state], func being the closure after the call
poll(func, s) ==
    [result |-> func.left = 0,
     func |-> IF func.left = 0 THEN func ELSE [func EXCEPT !.left = @ - 1],
     state |-> IF func.writes = "none" THEN s ELSE Plain(func.writes)]

\* Process::is_ready: [state, result].  The state is taken out and Ready is
\* left in its place; the state taken out is put back at the end
is_ready(s) ==
    LET taken == s
        inPlace == Plain("Ready")
    IN  IF taken.tag = "Ready" THEN [state |-> taken, result |-> TRUE]
        ELSE IF taken.tag = "Waiting"
        THEN Only({[state |-> r.func, result |-> r.result] :
                   r \in {poll(taken, inPlace)}})
        ELSE [state |-> taken, result |-> FALSE]

\* how often one process is polled
MaxPolls == 5

\* the closures: how many polls until the event, and what they write
Lefts == 0..7

Writes == {"none", "Dead", "Running"}

InitReady ==
    /\ state \in {Plain(t) : t \in {"Ready", "Running", "Dead"}}
                 \cup {Waiting(k, w) : k \in Lefts, w \in Writes}
    /\ ret = [op |-> "none", n |-> 0, before |-> Plain("Ready"), result |-> FALSE]
    /\ heap = Allocator_new(HeapStart, HeapEnd) /\ live = {} /\ trail = <<>>
    /\ halted = FALSE
    /\ IdleBin /\ IdleVm /\ IdleTrap /\ IdleExc /\ IdleCpu /\ IdleIrq /\ IdlePic /\ IdleTimer
    /\ IdleMutex /\ IdleBoot /\ IdlePt /\ IdleSys

\* a scheduling pass polls the process
IsReady ==
    /\ ret.n < MaxPolls
    /\ \E r \in {is_ready(state)} :
           /\ state' = r.state
           /\ ret' = [op |-> "is_ready", n |-> ret.n + 1, before |-> state,
                      result |-> r.result]
    /\ UNCHANGED <<heap, live, trail, halted, sizeIn, binOut, loads, loaded, processes,
                   last_id, tf, mem, lock, stack, cpu, irq, controller, timer, mutex, boot,
                   pagetable, sysreg>>

NextReady == IsReady

SpecReady == InitReady /\ [][NextReady]_vars

\* C22: is_ready answers true and leaves the state alone for a Ready process,
\* answers false and leaves the state alone for a Running or Dead process and
\* for a Waiting process whose predicate answers false, and answers true and
\* makes the state Ready for a Waiting process whose predicate answers true.
C22_IsReady ==
    ret.op = "is_ready" =>
        /\ ret.before.tag = "Ready" => ret.result /\ state = ret.before
        /\ ret.before.tag \in {"Running", "Dead"} => ~ret.result /\ state = ret.before
        /\ (ret.before.tag = "Waiting" /\ ret.before.left > 0) =>
               ~ret.result /\ state.tag = "Waiting"
        /\ (ret.before.tag = "Waiting" /\ ret.before.left = 0) =>
               ret.result /\ state.tag = "Ready"

-----------------------------------------------------------------------------
(* The IRQ table (traps/irq.rs), the interrupt controller and the system   *)
(* timer (lib/pi).  IRQ is [some, handlers]: the Option and the array of   *)
(* eight optional handlers.  A handler is named by what it does: "tick" is *)
(* the closure GlobalScheduler::start registers, "A" and "B" write their   *)
(* mark into x0 of the trap frame.  The timer is [CS, CLO, COMPARE1], CS   *)
(* being the set of match bits; the controller is [pending, enable], the   *)
(* sets of interrupt numbers of its registers.                             *)

\* Interrupt::iter()
Interrupt_iter == <<"Timer1", "Timer3", "Usb", "Gpio0", "Gpio1", "Gpio2", "Gpio3", "Uart">>

Interrupts == {Interrupt_iter[k] : k \in 1..Len(Interrupt_iter)}

\* int as u32
irq_idx(int) ==
    CASE int = "Timer1" -> 1 [] int = "Timer3" -> 3 [] int = "Usb" -> 9
      [] int = "Gpio0" -> 49 [] int = "Gpio1" -> 50 [] int = "Gpio2" -> 51
      [] int = "Gpio3" -> 52 [] int = "Uart" -> 57

\* an index that sends Gpio3 where Gpio2 is
to_index_clash(i) ==
    CASE i = "Timer1" -> 0 [] i = "Timer3" -> 1 [] i = "Usb" -> 2 [] i = "Gpio0" -> 3
      [] i = "Gpio1" -> 4 [] i = "Gpio2" -> 5 [] i = "Gpio3" -> 5 [] i = "Uart" -> 7

\* Interrupt::to_index
to_index(i) ==
    CASE i = "Timer1" -> 0 [] i = "Timer3" -> 1 [] i = "Usb" -> 2 [] i = "Gpio0" -> 3
      [] i = "Gpio1" -> 4 [] i = "Gpio2" -> 5 [] i = "Gpio3" -> 6 [] i = "Uart" -> 7

\* param::TICK: Duration::from_millis(1000), in microseconds
TICK == 1000 * 1000

\* Timer::tick_in(t): the match of timer 1 is cleared, the next one is t from now
tick_in(T, t) == [T EXCEPT !.CS = @ \ {1}, !.COMPARE1 = T.CLO + t]

\* the call of a handler: [tf, timer, calls], calls being what it calls
handler_call(handler, frame, T) ==
    IF handler = "tick"
    THEN [tf |-> frame, timer |-> tick_in(T, TICK), calls |-> <<"tick_in">>]
    ELSE [tf |-> [frame EXCEPT !.xn[0] = U64(IF handler = "A" THEN 65 ELSE 66)],
          timer |-> T, calls |-> <<>>]

\* Irq::uninitialized and Irq::initialize
Irq_uninitialized == [some |-> FALSE, handlers |-> <<>>]

Irq_initialize == [some |-> TRUE, handlers |-> [k \in 0..7 |-> "None"]]

\* Irq::register: [irq, panicked]
Irq_register(I, int, handler) ==
    IF ~I.some THEN [irq |-> I, panicked |-> TRUE]
    ELSE [irq |-> [I EXCEPT !.handlers[to_index(int)] = handler], panicked |-> FALSE]

\* Irq::invoke: [tf, timer, ran, calls, panicked], ran being the handlers run
Irq_invoke(I, int, frame, T) ==
    IF ~I.some
    THEN [tf |-> frame, timer |-> T, ran |-> <<>>, calls |-> <<>>, panicked |-> TRUE]
    ELSE IF I.handlers[to_index(int)] # "None"
    THEN Only({[tf |-> r.tf, timer |-> r.timer, ran |-> <<I.handlers[to_index(int)]>>,
                calls |-> r.calls, panicked |-> FALSE] :
               r \in {handler_call(I.handlers[to_index(int)], frame, T)}})
    ELSE [tf |-> frame, timer |-> T, ran |-> <<>>, calls |-> <<>>, panicked |-> FALSE]

\* how many handlers are registered in a run
MaxRegisters == 3

\* the handlers that are registered
TestHandlers == {"A", "B"}

\* the interrupts they are registered for: the first, and two neighbours
TableInts == {"Timer1", "Gpio2", "Gpio3"}

\* a trap frame with registers
FrameOfZeros == [ELR |-> Zero64, VTTBR |-> Zero64, xn |-> [i \in 0..31 |-> Zero64]]

\* the timer and the controller at rest
TimerAtRest == [CS |-> {}, CLO |-> 0, COMPARE1 |-> 0]

ControllerAtRest == [pending |-> {}, enable |-> {}]

InitTable ==
    /\ irq = Irq_initialize
    /\ tf = FrameOfZeros
    /\ timer = TimerAtRest
    /\ controller = ControllerAtRest
    /\ ret = [op |-> "none"]
    /\ trail = <<>>
    /\ heap = Allocator_new(HeapStart, HeapEnd) /\ live = {} /\ halted = FALSE
    /\ mem = <<>>
    /\ IdleBin /\ IdleVm /\ IdleExc /\ IdleCpu /\ IdleState /\ IdleMutex /\ IdleBoot /\ IdlePt
    /\ IdleSys

\* IRQ.register(int, handler); trail remembers the calls
Register(int, handler) ==
    /\ Len(trail) < MaxRegisters
    /\ \E r \in {Irq_register(irq, int, handler)} :
           /\ irq' = r.irq
           /\ halted' = r.panicked
    /\ trail' = Append(trail, <<int, handler>>)
    /\ ret' = [op |-> "register"]
    /\ UNCHANGED <<heap, live, sizeIn, binOut, loads, loaded, processes, last_id, tf, mem,
                   lock, stack, cpu, state, controller, timer, mutex, boot, pagetable, sysreg>>

\* IRQ.invoke(int, tf)
Invoke(int) ==
    /\ ret.op # "invoke"
    /\ \E r \in {Irq_invoke(irq, int, FrameOfZeros, timer)} :
           /\ tf' = r.tf
           /\ timer' = r.timer
           /\ halted' = r.panicked
           /\ ret' = [op |-> "invoke", int |-> int, ran |-> r.ran]
    /\ UNCHANGED <<heap, live, trail, sizeIn, binOut, loads, loaded, processes, last_id,
                   mem, lock, stack, cpu, state, irq, controller, mutex, boot, pagetable,
                   sysreg>>

NextTable ==
    \/ \E int \in TableInts, h \in TestHandlers : Register(int, h)
    \/ \E int \in Interrupts : Invoke(int)

SpecTable == InitTable /\ [][NextTable]_vars

RECURSIVE Latest(_, _)
\* the handler of the last register call for int in a sequence of calls
Latest(calls, int) ==
    IF calls = <<>> THEN "None"
    ELSE IF calls[Len(calls)][1] = int THEN calls[Len(calls)][2]
    ELSE Latest(SubSeq(calls, 1, Len(calls) - 1), int)

\* C28: invoke(int, tf) runs the handler most recently registered for int,
\* once, and the handler's write reaches tf; with no handler registered for
\* int nothing runs and tf is unchanged; the table holds for every interrupt
\* the handler registered last for it (to_index is injective).
C28_InvokeRunsLatest ==
    /\ \A i, j \in Interrupts : to_index(i) = to_index(j) => i = j
    /\ \A i \in Interrupts : irq.handlers[to_index(i)] = Latest(trail, i)
    /\ ret.op = "invoke" =>
           LET h == Latest(trail, ret.int)
           IN  /\ ret.ran = (IF h = "None" THEN <<>> ELSE <<h>>)
               /\ tf = (IF h = "None" THEN FrameOfZeros
                        ELSE handler_call(h, FrameOfZeros, TimerAtRest).tf)
               /\ ~halted

\* C28 witness: after B replaced A for one interrupt and with another
\* interrupt registered, the replaced interrupt was invoked and B ran
C28_Witness ==
    /\ ret.op = "invoke" /\ ret.ran = <<"B">>
    /\ Len(trail) = 3
    /\ trail[1] = <<ret.int, "A">>
    /\ \E k \in 2..3 : trail[k][1] # ret.int
    /\ tf.xn[0] = U64(66)

-----------------------------------------------------------------------------
(* Interrupts taken from the guest: GlobalScheduler::start arms timer 1,   *)
(* the hardware raises interrupts, and handle_exception dispatches them.   *)

\* Controller::enable: or_mask on the enable register of the interrupt
Controller_enable(C, int) == [C EXCEPT !.enable = @ \cup {irq_idx(int)}]

\* what the controller shows as pending: the devices' lines and, for timer
\* 1, the match bit of the timer
PendingNow(C, T) == C.pending \cup (IF 1 \in T.CS THEN {irq_idx("Timer1")} ELSE {})

\* Controller::is_pending: the bit of the interrupt in Enable_IRQ_1 or
\* Enable_IRQ_2, which read as the enabled interrupts
is_pending(C, T, int) == irq_idx(int) \in C.enable

RECURSIVE dispatch(_, _, _, _, _)
\* the loop of handle_exception over Interrupt::iter() from position k:
\* [tf, timer, invoked, served, ran, calls, panicked]: the interrupts IRQ.invoke
\* was called for, those whose handler ran, the handlers, and what they called
dispatch(I, C, frame, T, k) ==
    IF k > Len(Interrupt_iter)
    THEN [tf |-> frame, timer |-> T, invoked |-> <<>>, served |-> <<>>, ran |-> <<>>,
          calls |-> <<>>, panicked |-> FALSE]
    ELSE IF ~is_pending(C, T, Interrupt_iter[k]) THEN dispatch(I, C, frame, T, k + 1)
    ELSE Only({IF r.panicked
               THEN [tf |-> r.tf, timer |-> r.timer, invoked |-> <<Interrupt_iter[k]>>,
                     served |-> <<>>, ran |-> r.ran, calls |-> r.calls, panicked |-> TRUE]
               ELSE Only({[tf |-> n.tf, timer |-> n.timer,
                           invoked |-> <<Interrupt_iter[k]>> \o n.invoked,
                           served |-> (IF r.ran = <<>> THEN <<>>
                                       ELSE <<Interrupt_iter[k]>>) \o n.served,
                           ran |-> r.ran \o n.ran, calls |-> r.calls \o n.calls,
                           panicked |-> n.panicked] :
                          n \in {dispatch(I, C, r.tf, r.timer, k + 1)}}) :
               r \in {Irq_invoke(I, Interrupt_iter[k], frame, T)}})

\* how long the timer runs, in steps of half a TICK
MaxTime == 6

\* how many interrupts are taken
MaxIrqs == 3

\* the devices whose interrupts the guest turns on and that raise them
Devices == {"Timer3", "Uart"}

InitIrq ==
    /\ irq = Irq_initialize
    /\ tf = FrameOfZeros
    /\ timer = TimerAtRest
    /\ controller = ControllerAtRest
    /\ ret = [op |-> "none", n |-> 0, started |-> FALSE]
    /\ trail = <<>>
    /\ heap = Allocator_new(HeapStart, HeapEnd) /\ live = {} /\ halted = FALSE
    /\ mem = <<>>
    /\ IdleBin /\ IdleVm /\ IdleExc /\ IdleCpu /\ IdleState /\ IdleMutex /\ IdleBoot /\ IdlePt
    /\ IdleSys

\* GlobalScheduler::start up to controller.enable(Interrupt::Timer1)
Start ==
    /\ ~ret.started /\ ~halted
    /\ \E r \in {Irq_register(irq, "Timer1", "tick")} :
           /\ irq' = r.irq
           /\ halted' = r.panicked
    /\ timer' = tick_in(timer, TICK)
    /\ controller' = Controller_enable(controller, "Timer1")
    /\ ret' = [op |-> "start", n |-> 0, started |-> TRUE]
    /\ UNCHANGED <<heap, live, trail, sizeIn, binOut, loads, loaded, processes, last_id,
                   tf, mem, lock, stack, cpu, state, mutex, boot, pagetable, sysreg>>

\* the hardware: half a TICK passes; the match bit of timer 1 is set when the
\* counter reaches COMPARE1
Elapse ==
    /\ ret.started /\ ~halted
    /\ timer.CLO < MaxTime * (TICK \div 2)
    /\ timer' = [timer EXCEPT !.CLO = @ + TICK \div 2,
                              !.CS = IF timer.CLO + TICK \div 2 = timer.COMPARE1
                                     THEN @ \cup {1} ELSE @]
    /\ ret' = [ret EXCEPT !.op = "elapse"]
    /\ UNCHANGED <<heap, live, trail, halted, sizeIn, binOut, loads, loaded, processes,
                   last_id, tf, mem, lock, stack, cpu, state, irq, controller, mutex, boot,
                   pagetable, sysreg>>

\* the guest turns the interrupt of a device on: its store to the enable
\* register is emulated by handle_mmio on the real register
GuestEnable(int) ==
    /\ ret.started /\ ~halted
    /\ irq_idx(int) \notin controller.enable
    /\ controller' = Controller_enable(controller, int)
    /\ ret' = [ret EXCEPT !.op = "enable"]
    /\ UNCHANGED <<heap, live, trail, halted, sizeIn, binOut, loads, loaded, processes,
                   last_id, tf, mem, lock, stack, cpu, state, irq, timer, mutex, boot,
                   pagetable, sysreg>>

\* the hardware: a device raises its line, or takes it back
Raise(int) ==
    /\ ret.started /\ ~halted
    /\ controller' = [controller EXCEPT
                          !.pending = IF irq_idx(int) \in @ THEN @ \ {irq_idx(int)}
                                      ELSE @ \cup {irq_idx(int)}]
    /\ ret' = [ret EXCEPT !.op = "raise"]
    /\ UNCHANGED <<heap, live, trail, halted, sizeIn, binOut, loads, loaded, processes,
                   last_id, tf, mem, lock, stack, cpu, state, irq, timer, mutex, boot,
                   pagetable, sysreg>>

\* handle_exception for an IRQ from the guest, taken when an interrupt is
\* pending and enabled; ret keeps what was pending and enabled on entry
TakeIrq ==
    /\ ret.started /\ ~halted
    /\ ret.n < MaxIrqs
    /\ PendingNow(controller, timer) \cap controller.enable # {}
    /\ \E r \in {dispatch(irq, controller, tf, timer, 1)} :
           /\ tf' = r.tf
           /\ timer' = r.timer
           /\ halted' = r.panicked
           /\ ret' = [op |-> "irq", n |-> ret.n + 1, started |-> TRUE,
                      pending |-> PendingNow(controller, timer),
                      enable |-> controller.enable,
                      invoked |-> r.invoked, served |-> r.served, ran |-> r.ran,
                      calls |-> r.calls,
                      now |-> timer.CLO]
    /\ UNCHANGED <<heap, live, trail, sizeIn, binOut, loads, loaded, processes, last_id,
                   mem, lock, stack, cpu, state, irq, controller, mutex, boot, pagetable,
                   sysreg>>

NextIrq ==
    \/ Start
    \/ Elapse
    \/ \E int \in Devices : GuestEnable(int)
    \/ \E int \in Devices : Raise(int)
    \/ TakeIrq

SpecIrq == InitIrq /\ [][NextIrq]_vars

\* how often an interrupt occurs in a sequence of interrupts
Invocations(invoked, int) == Cardinality({k \in 1..Len(invoked) : invoked[k] = int})

\* C23: a Timer1 interrupt taken from the guest runs the handler that start
\* registered, which schedules the next tick one TICK ahead and then switches
\* the current process out.
C23_TickThenSwitch ==
    (ret.op = "irq" /\ irq_idx("Timer1") \in ret.pending) =>
        /\ ret.ran # <<>> /\ ret.ran[1] = "tick"
        /\ timer.COMPARE1 = ret.now + TICK /\ 1 \notin timer.CS
        /\ ret.calls = <<"tick_in", "switch">>

\* C24: on an IRQ from the guest, the handler registered for an interrupt
\* runs once if the interrupt is pending and enabled and does not run if the
\* interrupt is not pending; then handle_exception returns.
C24_PendingInvokedOnce ==
    ret.op = "irq" =>
        /\ \A int \in Interrupts :
               irq.handlers[to_index(int)] # "None" =>
                   /\ (irq_idx(int) \in ret.pending \cap ret.enable) =>
                          Invocations(ret.served, int) = 1
                   /\ irq_idx(int) \notin ret.pending =>
                          Invocations(ret.served, int) = 0
        /\ ~halted

-----------------------------------------------------------------------------
(* The allocator's calls with a zero size, a null pointer or a pointer that *)
(* does not have the layout's alignment, among ordinary calls.              *)

\* the pointers, sizes and alignments of the calls
EdgePtrs == {NULL, HeapStart + 4} \cup {a.ptr : a \in live}

EdgeSizes == {0, 8}

EdgeAligns == {1, 16}

\* alloc(Layout{0, align})
AllocZero(align) ==
    /\ ~halted
    /\ \E r \in {alloc(heap, 0, align)} :
           /\ heap' = r.heap
           /\ halted' = r.heap.panicked
           /\ ret' = [op |-> "alloc_zero", size |-> 0, align |-> align, ptr |-> r.ptr,
                      before |-> heap]
    /\ UNCHANGED <<live, trail, sizeIn, binOut, loads, loaded, processes, last_id, tf, mem,
                   lock, stack, cpu, state, irq, controller, timer, mutex, boot, pagetable,
                   sysreg>>

\* dealloc(ptr, Layout{size, align}) with a zero size, a null pointer or a
\* pointer that is not aligned
DeallocEdge(ptr, size, align) ==
    /\ ~halted
    /\ size = 0 \/ ptr = NULL \/ ~is_aligned(ptr, align)
    /\ \E h \in {dealloc(heap, ptr, size, align)} :
           /\ heap' = h
           /\ halted' = h.panicked
    /\ ret' = [op |-> "dealloc_edge", size |-> size, align |-> align, ptr |-> ptr,
               before |-> heap]
    /\ UNCHANGED <<live, trail, sizeIn, binOut, loads, loaded, processes, last_id, tf, mem,
                   lock, stack, cpu, state, irq, controller, timer, mutex, boot, pagetable,
                   sysreg>>

NextEdge ==
    \/ \E size \in EdgeSizes \ {0}, align \in EdgeAligns : Alloc(size, align)
    \/ \E a \in live : Dealloc(a)
    \/ \E align \in EdgeAligns : AllocZero(align)
    \/ \E ptr \in EdgePtrs, size \in EdgeSizes, align \in EdgeAligns :
           DeallocEdge(ptr, size, align)

SpecEdge == InitAlloc /\ [][NextEdge]_vars

\* C25: dealloc with size 0 or a null pointer changes no bin and not the top
\* chunk and does not panic; dealloc of a non-null pointer that is not
\* aligned to the layout's alignment (size not 0) panics and changes no bin
\* and not the top chunk; alloc with size 0 returns null and changes nothing.
C25_EdgeCalls ==
    /\ ret.op = "dealloc_edge" =>
           /\ heap.bins = ret.before.bins
           /\ heap.top_start = ret.before.top_start
           /\ heap.top_end = ret.before.top_end
           /\ halted = (ret.size # 0 /\ ret.ptr # NULL)
    /\ ret.op = "alloc_zero" =>
           /\ ret.ptr = NULL
           /\ heap = ret.before
           /\ ~halted

\* C25 witness: a block was freed into a bin, and then a dealloc of a pointer
\* that is not aligned panicked
C25_Witness ==
    /\ ret.op = "dealloc_edge" /\ halted
    /\ \E b \in DOMAIN heap.bins : heap.bins[b] # <<>>
    /\ ret.ptr \in {a.ptr : a \in live}

-----------------------------------------------------------------------------
(* Mutex, MutexGuard and MappedMutexGuard (visor/src/mutex.rs) *)

\* usize::max_value(), the owner of a mutex that was never locked
usize_max == <<Limb - 1, Limb - 1, Limb - 1, Limb - 1>>

\* `let this = 0;` in try_lock: the identifier of the calling CPU
this == Zero64

\* Mutex::new: the RawMutex of a new mutex
Mutex_new == [lock |-> FALSE, owner |-> usize_max]

\* a try_lock that only looks at the lock flag
RawMutex_try_lock_flag_only(R) ==
    IF ~R.lock
    THEN [raw |-> [lock |-> TRUE, owner |-> this], ok |-> TRUE]
    ELSE [raw |-> R, ok |-> FALSE]

\* RawMutex::try_lock: the mutex afterwards and the result
RawMutex_try_lock(R) ==
    IF ~R.lock \/ R.owner = this
    THEN [raw |-> [lock |-> TRUE, owner |-> this], ok |-> TRUE]
    ELSE [raw |-> R, ok |-> FALSE]

\* RawMutex::unlock
RawMutex_unlock(R) == [R EXCEPT !.lock = FALSE]

\* a guard: its type and the number of map calls that led to it
MutexGuard == [kind |-> "MutexGuard", maps |-> 0]

\* MutexGuard::map and MappedMutexGuard::map: the guard that is returned; the
\* guard it is called on is forgotten (core::mem::forget), its Drop never runs
Guard_map(g) == [kind |-> "MappedMutexGuard", maps |-> g.maps + 1]

\* a sequence without its i-th element
RemoveAt(s, i) == SubSeq(s, 1, i - 1) \o SubSeq(s, i + 1, Len(s))

\* guards alive at a time, and map calls in a chain
MaxGuards == 3

MaxMaps == 2

InitMutex ==
    /\ mutex = [raw |-> Mutex_new, guards |-> <<>>]
    /\ ret = [op |-> "new"]
    /\ heap = <<>> /\ live = {} /\ trail = <<>> /\ halted = FALSE
    /\ IdleBin /\ IdleVm /\ IdleTrap /\ IdleExc /\ IdleCpu /\ IdleState /\ IdleIrq
    /\ IdlePic /\ IdleTimer /\ IdleBoot /\ IdlePt /\ IdleSys

\* Mutex::try_lock: Some(MutexGuard) when RawMutex::try_lock succeeds
TryLock ==
    /\ Len(mutex.guards) < MaxGuards
    /\ \E r \in {RawMutex_try_lock(mutex.raw)} :
           /\ mutex' = [raw |-> r.raw,
                        guards |-> IF r.ok THEN Append(mutex.guards, MutexGuard)
                                   ELSE mutex.guards]
           /\ ret' = [op |-> "try_lock", ok |-> r.ok, before |-> mutex.raw]
    /\ UNCHANGED <<heap, live, trail, halted, sizeIn, binOut, loads, loaded, processes,
                   last_id, tf, mem, lock, stack, cpu, state, irq, controller, timer, boot,
                   pagetable, sysreg>>

\* Mutex::lock: try_lock until it succeeds (a failed try_lock changes nothing,
\* so the loop is one step that is taken when try_lock succeeds)
Lock ==
    /\ Len(mutex.guards) < MaxGuards
    /\ \E r \in {RawMutex_try_lock(mutex.raw)} :
           /\ r.ok
           /\ mutex' = [raw |-> r.raw, guards |-> Append(mutex.guards, MutexGuard)]
           /\ ret' = [op |-> "lock", ok |-> TRUE, before |-> mutex.raw]
    /\ UNCHANGED <<heap, live, trail, halted, sizeIn, binOut, loads, loaded, processes,
                   last_id, tf, mem, lock, stack, cpu, state, irq, controller, timer, boot,
                   pagetable, sysreg>>

\* guard.map(f) on the i-th guard
Map(i) ==
    /\ mutex.guards[i].maps < MaxMaps
    /\ mutex' = [mutex EXCEPT !.guards[i] = Guard_map(@)]
    /\ ret' = [op |-> "map", guard |-> mutex.guards[i], before |-> mutex.raw]
    /\ UNCHANGED <<heap, live, trail, halted, sizeIn, binOut, loads, loaded, processes,
                   last_id, tf, mem, lock, stack, cpu, state, irq, controller, timer, boot,
                   pagetable, sysreg>>

\* Drop for MutexGuard and for MappedMutexGuard: the i-th guard leaves its scope
DropGuard(i) ==
    /\ mutex' = [raw |-> RawMutex_unlock(mutex.raw), guards |-> RemoveAt(mutex.guards, i)]
    /\ ret' = [op |-> "drop", guard |-> mutex.guards[i], before |-> mutex.raw]
    /\ UNCHANGED <<heap, live, trail, halted, sizeIn, binOut, loads, loaded, processes,
                   last_id, tf, mem, lock, stack, cpu, state, irq, controller, timer, boot,
                   pagetable, sysreg>>

NextMutex ==
    \/ TryLock
    \/ Lock
    \/ \E i \in DOMAIN mutex.guards : Map(i)
    \/ \E i \in DOMAIN mutex.guards : DropGuard(i)

SpecMutex == InitMutex /\ [][NextMutex]_vars

\* the owners a RawMutex can name
Owners == {this, U64(1), usize_max}

\* C26: try_lock succeeds exactly when the mutex is unlocked or its owner is
\* the calling CPU, and then the mutex is locked and owned by the caller; as
\* a function of the two fields it fails for a locked mutex of another owner
\* and leaves it as it was; the drop of a guard leaves the mutex unlocked.
C26_TryLockAndRelease ==
    /\ ret.op = "try_lock" =>
           /\ ret.ok = (~ret.before.lock \/ ret.before.owner = this)
           /\ ret.ok => mutex.raw = [lock |-> TRUE, owner |-> this]
    /\ \A o \in Owners \ {this} :
           /\ RawMutex_try_lock([lock |-> TRUE, owner |-> o]) =
                  [raw |-> [lock |-> TRUE, owner |-> o], ok |-> FALSE]
           /\ RawMutex_try_lock([lock |-> FALSE, owner |-> o]).ok
    /\ ret.op = "drop" => ~mutex.raw.lock

\* C26 witness: try_lock succeeded on a mutex that the caller already held
C26_Witness ==
    /\ ret.op = "try_lock" /\ ret.ok
    /\ ret.before = [lock |-> TRUE, owner |-> this]
    /\ Len(mutex.guards) = 2

\* C27: while a guard of the mutex is alive, be it the guard of lock() or a
\* guard mapped from it, the mutex is locked.
C27_LockedUntilLastDrop ==
    mutex.guards # <<>> => mutex.raw.lock

-----------------------------------------------------------------------------
(* Drop for GuestPageTable (visor/src/vm/pagetable.rs) *)

\* the pages the valid L3 entries of a table point at
ValidPages(vmap) == {entry_page(vmap[s]) : s \in {x \in DOMAIN vmap : is_valid(vmap[x])}}

\* the allocator blocks of a set of pages
PageBlocks(pages) == {[ptr |-> q, size |-> PAGE_SIZE, align |-> PAGE_SIZE] : q \in pages}

RECURSIVE BinBytes(_, _)
\* the bytes held by the free lists of bins b..LASTBIN
BinBytes(A, b) ==
    IF b > LASTBIN THEN 0
    ELSE (IF A.bins[b] = <<>> THEN 0 ELSE Len(A.bins[b]) * ToInt(bin_to_size(b)))
         + BinBytes(A, b + 1)

\* the bytes the allocator holds free: the free lists and the top chunk
FreeBytes(A) == BinBytes(A, 0) + (A.top_end - A.top_start)

RECURSIVE Offer(_, _)
\* n calls of alloc(Page::layout()) one after the other: the allocator
\* afterwards and the pointers returned (the calls are split in two halves)
Offer(A, n) ==
    IF n = 0 THEN [heap |-> A, got |-> {}]
    ELSE IF n = 1
    THEN Only({[heap |-> r.heap, got |-> {r.ptr} \ {NULL}] :
               r \in {alloc(A, PAGE_SIZE, PAGE_SIZE)}})
    ELSE Only({Only({[heap |-> b.heap, got |-> a.got \cup b.got] :
                     b \in {Offer(a.heap, n - n \div 2)}}) :
               a \in {Offer(A, n \div 2)}})

\* the pages that allocating page after page hands out
PagesOnOffer(A, n) == Offer(A, n).got

\* fault addresses of the guests that stay queued
DropHpfars == {((KERN_START_ADDR + 3 * PAGE_SIZE) \div 4096) * 16}

\* a loaded process goes out of scope: Drop for Process, and with it Drop for
\* GuestPageTable on its vmap
DropTable(p) ==
    /\ ~halted
    /\ \E M \in {Machine} : \E m \in {Process_drop(M, p)} :
           /\ heap' = m.heap /\ live' = m.live /\ halted' = m.halted
    /\ loaded' = loaded \ {p}
    /\ ret' = [op |-> "drop_table", p |-> p, heap |-> heap, live |-> live,
               others |-> Guests \ {p}]
    /\ UNCHANGED <<trail, sizeIn, binOut, loads, processes, last_id, tf, mem, lock, stack, cpu,
                   state, irq, controller, timer, mutex, boot, pagetable, sysreg>>

NextDrop ==
    \/ \E a \in BOOLEAN, n \in ImagePages,
          o \in {"ok", "open_failed", "read_failed"} : Load(a, n, o)
    \/ \E p \in loaded : Add(p)
    \/ \E p \in loaded : DropTable(p)
    \/ \E g \in 1..Len(processes), h \in DropHpfars : Fault(g, "Translation", h)

SpecDrop == InitVm /\ [][NextDrop]_vars

-----------------------------------------------------------------------------
(* The boot sequence (visor/src/main.rs) and the global singletons *)

Singletons == {"ALLOCATOR", "FILESYSTEM", "IRQ", "VMM", "SCHEDULER"}

\* a kmain that brings up the scheduler before the VMM
kmain_scheduler_first == <<"ALLOCATOR", "FILESYSTEM", "IRQ", "SCHEDULER", "VMM", "start">>

\* kmain: the initialize() calls in the order of the code, then SCHEDULER.start()
kmain == <<"ALLOCATOR", "FILESYSTEM", "IRQ", "VMM", "SCHEDULER", "start">>

\* the accessors of other singletons a step reaches, in order.
\* VMM.initialize boxes the PageTable; SCHEDULER.initialize runs Process::load:
\* GuestPageTable::new boxes the table and calls VMM.mark_noncacheable, the
\* image is opened and its pages are allocated; start() registers the Timer1
\* handler and takes the first process with get_by_vmid
reaches(step) ==
    CASE step = "VMM" -> <<"ALLOCATOR">>
      [] step = "SCHEDULER" -> <<"ALLOCATOR", "VMM", "FILESYSTEM", "ALLOCATOR", "VMM">>
      [] step = "start" -> <<"IRQ", "SCHEDULER">>
      [] step = "irq" -> <<"IRQ">>
      [] step = "fault" -> <<"SCHEDULER", "ALLOCATOR", "VMM">>
      [] OTHER -> <<>>

\* uninitialized(): every singleton holds None
uninitialized ==
    [pc |-> 1,
     some |-> [x \in Singletons |-> FALSE],
     inits |-> [x \in Singletons |-> 0],
     uses |-> [x \in Singletons |-> 0],
     early |-> {},
     panicked |-> FALSE]

\* an accessor of singleton x: .expect("... uninitialized") on the Option
expect(B, x) ==
    IF B.some[x]
    THEN [B EXCEPT !.uses[x] = @ + 1]
    ELSE [B EXCEPT !.uses[x] = @ + 1, !.early = @ \cup {x}, !.panicked = TRUE]

RECURSIVE expect_all(_, _)
\* the accessors of xs one after the other, up to the first panic
expect_all(B, xs) ==
    IF xs = <<>> \/ B.panicked THEN B
    ELSE expect_all(expect(B, Head(xs)), Tail(xs))

\* x.initialize(): what it needs of other singletons, then Some(..) is stored
initialize(B, x, outcome) ==
    Only({IF b.panicked THEN b
          ELSE IF outcome = "panic" THEN [b EXCEPT !.panicked = TRUE]
          ELSE [b EXCEPT !.some[x] = TRUE, !.inits[x] = @ + 1] :
          b \in {expect_all(B, reaches(x))}})

\* accessor calls of one singleton that the run after start() goes up to
MaxUses == 10

\* what an initialize() can come to: Sd::new().unwrap(), memory_map().expect()
\* and Process::load(..).expect("load failed") can panic, IRQ.initialize cannot
Outcomes(step) == IF step \in {"IRQ", "start"} THEN {"ok"} ELSE {"ok", "panic"}

InitBoot ==
    /\ boot = uninitialized
    /\ ret = [op |-> "reset"]
    /\ heap = <<>> /\ live = {} /\ trail = <<>> /\ halted = FALSE
    /\ IdleBin /\ IdleVm /\ IdleTrap /\ IdleExc /\ IdleCpu /\ IdleState /\ IdleIrq
    /\ IdlePic /\ IdleTimer /\ IdleMutex /\ IdlePt /\ IdleSys

\* the next statement of kmain
Boot(outcome) ==
    /\ ~halted
    /\ boot.pc <= Len(kmain)
    /\ \E step \in {kmain[boot.pc]} :
           /\ outcome \in Outcomes(step)
           /\ \E b \in {IF step = "start" THEN expect_all(boot, reaches(step))
                        ELSE initialize(boot, step, outcome)} :
                  /\ boot' = [b EXCEPT !.pc = @ + 1]
                  /\ halted' = b.panicked
           /\ ret' = [op |-> step, outcome |-> outcome]
    /\ UNCHANGED <<heap, live, trail, sizeIn, binOut, loads, loaded, processes, last_id, tf,
                   mem, lock, stack, cpu, state, irq, controller, timer, mutex, pagetable,
                   sysreg>>

\* after start(): a Timer1 interrupt (IRQ.invoke) or a lazy-paging fault
\* (SCHEDULER.get_by_vmid, ALLOCATOR.alloc, VMM.mark_noncacheable) of the guest
GuestTrap(kind) ==
    /\ ~halted
    /\ boot.pc > Len(kmain)
    /\ \A x \in DOMAIN boot.uses : boot.uses[x] < MaxUses
    /\ \E b \in {expect_all(boot, reaches(kind))} :
           /\ boot' = b
           /\ halted' = b.panicked
    /\ ret' = [op |-> kind, outcome |-> "ok"]
    /\ UNCHANGED <<heap, live, trail, sizeIn, binOut, loads, loaded, processes, last_id, tf,
                   mem, lock, stack, cpu, state, irq, controller, timer, mutex, pagetable,
                   sysreg>>

NextBoot ==
    \/ \E outcome \in {"ok", "panic"} : Boot(outcome)
    \/ \E kind \in {"irq", "fault"} : GuestTrap(kind)

SpecBoot == InitBoot /\ [][NextBoot]_vars

\* C30: no singleton is initialized twice; every accessor that is reached
\* finds its singleton initialized (once): the VMM when Process::load builds
\* the first GuestPageTable, the IRQ table when start() registers the Timer1
\* handler, the scheduler when start() runs; when the guest runs all five are
\* initialized; and an accessor of a singleton that holds None panics.
C30_InitOnceBeforeUse ==
    /\ \A x \in Singletons :
           /\ boot.inits[x] <= 1
           /\ boot.uses[x] > 0 => boot.inits[x] = 1
           /\ boot.some[x] = (boot.inits[x] = 1)
           /\ expect(uninitialized, x).panicked
           /\ ~boot.some[x] => expect(boot, x).panicked
    /\ boot.early = {}
    /\ ret.op = "SCHEDULER" => boot.inits["VMM"] = 1
    /\ ret.op = "start" => boot.inits["IRQ"] = 1 /\ boot.inits["SCHEDULER"] = 1
    /\ boot.pc > Len(kmain) => \A x \in Singletons : boot.inits[x] = 1

\* C30 witness: the boot went through, start() has run, and the guest has
\* since taken timer interrupts and lazy-paging faults
C30_Witness ==
    /\ boot.pc > Len(kmain) /\ ~halted
    /\ boot.uses["IRQ"] > 2 /\ boot.uses["SCHEDULER"] > 2 /\ boot.uses["VMM"] > 4

-----------------------------------------------------------------------------
(* PageTable::locate, set_entry and get_entry on usize addresses           *)
(* (visor/src/vm/pagetable.rs).  A table is [l2, l3]: l2 the two entries   *)
(* PageTable::new fills in, l3 the entries written so far, keyed by        *)
(* <<l2index, l3index>>; an index outside the arrays is a Rust panic.      *)

\* a locate without the test of the L2 index
locate_usize_unchecked(va) ==
    IF va[1] % PAGE_SIZE # 0 THEN <<PANICKED, PANICKED>>
    ELSE <<shr(va, 29)[1] % (2 ^ 13), shr(va, PAGE_ALIGN)[1] % (2 ^ 13)>>

\* PageTable::locate on a 64-bit address: <<l2index, l3index>>, or
\* <<PANICKED, PANICKED>> where it panics
locate_usize(va) ==
    IF va[1] % PAGE_SIZE # 0 THEN <<PANICKED, PANICKED>>
    ELSE Only({IF loc[1] >= 2 THEN <<PANICKED, PANICKED>> ELSE loc :
               loc \in {<<shr(va, 29)[1] % (2 ^ 13), shr(va, PAGE_ALIGN)[1] % (2 ^ 13)>>}})

\* the L3 tables of a PageTable
L3_TABLES == 2

\* PageTable::new: l2.entries[0] and [1] point at l3[0] and l3[1]
PageTable_new == [l2 |-> <<"l3[0]", "l3[1]">>, l3 |-> [k \in {} |-> Zero64]]

\* self.l3[l2index].entries[l3index] is inside the arrays
InBounds(loc) == loc[1] \in 0..(L3_TABLES - 1) /\ loc[2] \in 0..(L3_ENTRIES - 1)

\* PageTable::set_entry(va, entry): [pt, loc, panicked]
PageTable_set_entry(P, va, entry) ==
    Only({IF ~InBounds(loc) THEN [pt |-> P, loc |-> loc, panicked |-> TRUE]
          ELSE [pt |-> [P EXCEPT !.l3 = [k \in DOMAIN P.l3 \cup {loc} |->
                                            IF k = loc THEN entry ELSE P.l3[k]]],
                loc |-> loc, panicked |-> FALSE] :
          loc \in {locate_usize(va)}})

\* PageTable::get_entry(va): [entry, loc, panicked]
PageTable_get_entry(P, va) ==
    Only({IF ~InBounds(loc) THEN [entry |-> Zero64, loc |-> loc, panicked |-> TRUE]
          ELSE [entry |-> IF loc \in DOMAIN P.l3 THEN P.l3[loc] ELSE Zero64,
                loc |-> loc, panicked |-> FALSE] :
          loc \in {locate_usize(va)}})

\* calls of set_entry in a run
MaxSets == 2

\* addresses: aligned and not, in the first and the second L3 table, at the
\* first index past them, with every bit of the L2 index set, and with bits
\* above bit 41 set
LocateVas ==
    {<<lo, mid, hi, top>> : lo \in {0, 4096}, mid \in {0, 8191, 8192, 16384, 65535},
                            hi \in {0, 1, 1023, 1024}, top \in {0, 65535}}

LocateEntries == {U64(1), U64(3)}

InitLocate ==
    /\ pagetable = PageTable_new
    /\ ret = [op |-> "new", n |-> 0]
    /\ heap = <<>> /\ live = {} /\ trail = <<>> /\ halted = FALSE
    /\ IdleBin /\ IdleVm /\ IdleTrap /\ IdleExc /\ IdleCpu /\ IdleState /\ IdleIrq
    /\ IdlePic /\ IdleTimer /\ IdleMutex /\ IdleBoot /\ IdleSys

\* pagetable.set_entry(va, entry)
SetEntry(va, entry) ==
    /\ ~halted
    /\ ret.n < MaxSets
    /\ \E r \in {PageTable_set_entry(pagetable, va, entry)} :
           /\ pagetable' = r.pt
           /\ halted' = r.panicked
           /\ ret' = [op |-> "set_entry", n |-> ret.n + 1, va |-> va, entry |-> entry,
                      loc |-> r.loc, before |-> pagetable]
    /\ UNCHANGED <<heap, live, trail, sizeIn, binOut, loads, loaded, processes, last_id, tf,
                   mem, lock, stack, cpu, state, irq, controller, timer, mutex, boot, sysreg>>

\* pagetable.get_entry(va)
GetEntry(va) ==
    /\ ~halted
    /\ ret.op # "get_entry"
    /\ \E r \in {PageTable_get_entry(pagetable, va)} :
           /\ halted' = r.panicked
           /\ ret' = [op |-> "get_entry", n |-> ret.n, va |-> va, entry |-> r.entry,
                      loc |-> r.loc, before |-> pagetable]
    /\ UNCHANGED <<pagetable, heap, live, trail, sizeIn, binOut, loads, loaded, processes,
                   last_id, tf, mem, lock, stack, cpu, state, irq, controller, timer, mutex, boot,
                   sysreg>>

NextLocate ==
    \/ \E va \in LocateVas, entry \in LocateEntries : SetEntry(va, entry)
    \/ \E va \in LocateVas : GetEntry(va)

SpecLocate == InitLocate /\ [][NextLocate]_vars

\* bits [41:29] and bits [28:16] of an address, read off its 16-bit limbs
L2Bits(va) == va[2] \div 8192 + 8 * (va[3] % 1024)

L3Bits(va) == va[2] % 8192

\* C31: locate(va) panics exactly for the addresses whose low 16 bits are
\* not zero or whose bits [41:29] are 2 or more, and returns (bits [41:29],
\* bits [28:16]) otherwise; set_entry and get_entry therefore only reach
\* entries of the two L3 tables (set_entry writes the one entry located and
\* nothing else, a panicking call changes nothing), and the L2 entries stay
\* as PageTable::new left them.
C31_LocateInBounds ==
    /\ \A k \in DOMAIN pagetable.l3 : InBounds(k)
    /\ pagetable.l2 = PageTable_new.l2
    /\ ret.op \in {"set_entry", "get_entry"} =>
           /\ halted = (ret.va[1] # 0 \/ L2Bits(ret.va) >= 2)
           /\ ~halted => ret.loc = <<L2Bits(ret.va), L3Bits(ret.va)>>
           /\ halted => pagetable = ret.before
           /\ FitsInt(ret.va) => locate(ToInt(ret.va)) = ret.loc
    /\ (ret.op = "set_entry" /\ ~halted) =>
           /\ pagetable.l3[ret.loc] = ret.entry
           /\ \A k \in DOMAIN pagetable.l3 \ {ret.loc} :
                  k \in DOMAIN ret.before.l3 /\ pagetable.l3[k] = ret.before.l3[k]
    /\ (ret.op = "get_entry" /\ ~halted) =>
           ret.entry = (IF ret.loc \in DOMAIN pagetable.l3 THEN pagetable.l3[ret.loc]
                        ELSE Zero64)

\* C31 witness: with the last entry of the first L3 table written, set_entry wrote
\* an entry of the second L3 table
C31_Witness ==
    /\ ret.op = "set_entry" /\ ~halted
    /\ ret.loc[1] = 1
    /\ \E k \in DOMAIN pagetable.l3 : k[1] = 0 /\ k[2] = L3_ENTRIES - 1

-----------------------------------------------------------------------------
(* VMManager::setup: the translation control registers of the hypervisor   *)
(* (TCR_EL2, stage 1) and of the guests (VTCR_EL2, stage 2). A register is *)
(* a 64-bit word; SCTLR_EL2 and HCR_EL2, whose bit names are not laid out  *)
(* in the source, are the sets of the bit names that are set.              *)

GUEST_MASK_BITS == 34

VISOR_MASK_BITS == 32

\* defreg!(ID_AA64MMFR0_EL1, [...]): the two fields setup reads
ID_AA64MMFR0_EL1 == [TGran64 |-> <<27, 24>>, PARange |-> <<3, 0>>]

\* the fields of TCR_EL2 / VTCR_EL2 that setup's comments name
TCR == [T0SZ |-> <<5, 0>>, SL0 |-> <<7, 6>>, IRGN0 |-> <<9, 8>>, ORGN0 |-> <<11, 10>>,
        SH0 |-> <<13, 12>>, TG0 |-> <<15, 14>>, PS |-> <<18, 16>>]

\* a | b on u64
bitor(a, b) ==
    Only({WordOfBits([k \in 0..63 |-> IF Bit64(w[1], k) = 1 \/ Bit64(w[2], k) = 1
                                      THEN 1 ELSE 0]) :
          w \in {<<a, b>>}})

RECURSIVE bitor_all(_)
\* the | of the words of a sequence
bitor_all(ws) == IF ws = <<>> THEN Zero64 ELSE bitor(Head(ws), bitor_all(Tail(ws)))

\* the value setup writes to MAIR_EL2
MAIR_EL2_value == bitor_all(<<U64(255), shl(U64(4), 8), shl(U64(68), 16)>>)

\* the value setup writes to TCR_EL2
TCR_EL2_value(ips) ==
    bitor_all(<<shl(U64(1), 31), shl(U64(1), 23), shl(U64(0), 20), shl(ips, 16),
                shl(U64(1), 14), shl(U64(3), 12), shl(U64(1), 10), shl(U64(1), 8),
                shl(U64(VISOR_MASK_BITS), 0)>>)

\* VTCR_EL2 with the T0SZ field left at 0
VTCR_EL2_value_no_t0sz(ips) ==
    bitor_all(<<shl(U64(1), 31), shl(ips, 16), shl(U64(1), 14), shl(U64(3), 12),
                shl(U64(1), 10), shl(U64(1), 8), shl(U64(1), 6)>>)

\* the value setup writes to VTCR_EL2
VTCR_EL2_value(ips) ==
    bitor_all(<<shl(U64(1), 31), shl(ips, 16), shl(U64(1), 14), shl(U64(3), 12),
                shl(U64(1), 10), shl(U64(1), 8), shl(U64(1), 6),
                shl(U64(GUEST_MASK_BITS), 0)>>)

\* VMManager::setup on the registers R with the hypervisor table at baddr:
\* the assert on TGran64 panics before any register is written
VMManager_setup(R, baddr) ==
    IF field_value(R.ID_AA64MMFR0_EL1, ID_AA64MMFR0_EL1.TGran64) # Zero64
    THEN [R EXCEPT !.panicked = TRUE]
    ELSE Only({[R EXCEPT !.MAIR_EL2 = MAIR_EL2_value,
                         !.TCR_EL2 = TCR_EL2_value(ips),
                         !.TTBR0_EL2 = baddr,
                         !.SCTLR_EL2 = @ \cup {"I", "C", "M"},
                         !.VTCR_EL2 = VTCR_EL2_value(ips),
                         !.HCR_EL2 = {"VM", "RES1"},
                         !.setup = @ + 1] :
               ips \in {field_value(R.ID_AA64MMFR0_EL1, ID_AA64MMFR0_EL1.PARange)}})

\* how often setup is followed
MaxSetups == 1

\* ID_AA64MMFR0_EL1 of the core: the 64 KiB granule supported (0) or not (15),
\* every PARange, two values of the fields setup does not read
FeatureWords ==
    {<<pa + 16 * asid, 0 + 256 * tg64 + 4096 * tg4, 0, 0>> :
         pa \in 0..15, asid \in {0, 2}, tg64 \in {0, 15}, tg4 \in {0, 15}}

\* where the hypervisor's L2 table may lie
Baddrs == {U64(KERN_START_ADDR + PAGE_SIZE), U64(KERN_START_ADDR + 2 * PAGE_SIZE)}

InitSetup ==
    /\ \E w \in FeatureWords, s \in {{}, {"EE"}} :
           sysreg = [ID_AA64MMFR0_EL1 |-> w, MAIR_EL2 |-> Zero64, TCR_EL2 |-> Zero64,
                     TTBR0_EL2 |-> Zero64, SCTLR_EL2 |-> s, VTCR_EL2 |-> Zero64,
                     HCR_EL2 |-> {}, setup |-> 0, panicked |-> FALSE]
    /\ heap = <<>> /\ live = {} /\ ret = <<>> /\ trail = <<>> /\ halted = FALSE
    /\ IdleBin /\ IdleVm /\ IdleTrap /\ IdleExc /\ IdleCpu /\ IdleState /\ IdleIrq
    /\ IdlePic /\ IdleTimer /\ IdleMutex /\ IdleBoot /\ IdlePt

\* VMM.initialize() reaches setup()
Setup(baddr) ==
    /\ ~sysreg.panicked
    /\ sysreg.setup < MaxSetups
    /\ sysreg' = VMManager_setup(sysreg, baddr)
    /\ UNCHANGED <<heap, live, ret, trail, halted, sizeIn, binOut, loads, loaded,
                   processes, last_id, tf, mem, lock, stack, cpu, state, irq, controller,
                   timer, mutex, boot, pagetable>>

NextSetup == \E baddr \in Baddrs : Setup(baddr)

SpecSetup == InitSetup /\ [][NextSetup]_vars

\* C32 as stated: after setup VTCR_EL2 has T0SZ = 64 - GUEST_MASK_BITS = 30, the
\* 64 KiB granule and a walk that starts at level 2, and TCR_EL2 has
\* T0SZ = 64 - VISOR_MASK_BITS = 32
C32_T0szIsSixtyFourMinusMaskBits ==
    sysreg.setup > 0 =>
        /\ field_value(sysreg.VTCR_EL2, TCR.T0SZ) = U64(64 - GUEST_MASK_BITS)
        /\ field_value(sysreg.VTCR_EL2, TCR.TG0) = U64(1)
        /\ field_value(sysreg.VTCR_EL2, TCR.SL0) = U64(1)
        /\ field_value(sysreg.TCR_EL2, TCR.T0SZ) = U64(64 - VISOR_MASK_BITS)

\* C32 amended: after setup VTCR_EL2 has T0SZ = GUEST_MASK_BITS = 34 (a 2^30
\* byte input range), the 64 KiB granule (TG0 = 1) and a walk that starts at
\* level 2 (SL0 = 1), TCR_EL2 has T0SZ = VISOR_MASK_BITS = 32 and TG0 = 1, both
\* carry PARange in PS, and a core without the 64 KiB granule writes neither
C32_T0szIsMaskBits ==
    /\ sysreg.setup > 0 =>
        /\ field_value(sysreg.VTCR_EL2, TCR.T0SZ) = U64(GUEST_MASK_BITS)
        /\ field_value(sysreg.VTCR_EL2, TCR.TG0) = U64(1)
        /\ field_value(sysreg.VTCR_EL2, TCR.SL0) = U64(1)
        /\ field_value(sysreg.TCR_EL2, TCR.T0SZ) = U64(VISOR_MASK_BITS)
        /\ field_value(sysreg.TCR_EL2, TCR.TG0) = U64(1)
        /\ field_value(sysreg.VTCR_EL2, TCR.PS)[1]
               = field_value(sysreg.ID_AA64MMFR0_EL1, ID_AA64MMFR0_EL1.PARange)[1] % 8
        /\ field_value(sysreg.TCR_EL2, TCR.PS)[1]
               = field_value(sysreg.ID_AA64MMFR0_EL1, ID_AA64MMFR0_EL1.PARange)[1] % 8
    /\ sysreg.panicked => sysreg.VTCR_EL2 = Zero64 /\ sysreg.TCR_EL2 = Zero64

\* C32: setup has written both registers on a core with a 40-bit PARange
C32_Witness ==
    /\ sysreg.setup > 0
    /\ field_value(sysreg.VTCR_EL2, TCR.T0SZ) = U64(34)
    /\ field_value(sysreg.TCR_EL2, TCR.T0SZ) = U64(32)
    /\ field_value(sysreg.VTCR_EL2, TCR.PS) = U64(2)

-----------------------------------------------------------------------------
(* Controller::enable and Controller::disable on the enable registers of   *)
(* the interrupt controller. controller.enable is what Enable_IRQ_1 (the   *)
(* indices below 32) and Enable_IRQ_2 (the others) read as: a bit written  *)
(* as 1 to an Enable register turns the interrupt on, a bit written as 1   *)
(* to a Disable register turns it off.                                     *)

\* Controller::disable: or_mask on the Enable register of the interrupt's
\* bank, as in enable; no Disable register is written
Controller_disable(C, int) == [C EXCEPT !.enable = @ \cup {irq_idx(int)}]

\* the interrupts turned on and off: two of each bank
PicInts == {"Timer1", "Timer3", "Gpio0", "Uart"}

InitPic ==
    /\ controller = ControllerAtRest
    /\ ret = [op |-> "new", int |-> "None", before |-> {}, disabled |-> {}]
    /\ heap = <<>> /\ live = {} /\ trail = <<>> /\ halted = FALSE
    /\ IdleBin /\ IdleVm /\ IdleTrap /\ IdleExc /\ IdleCpu /\ IdleState /\ IdleIrq
    /\ IdleTimer /\ IdleMutex /\ IdleBoot /\ IdlePt /\ IdleSys

\* controller.enable(int)
PicEnable(int) ==
    /\ controller' = Controller_enable(controller, int)
    /\ ret' = [op |-> "enable", int |-> int, before |-> controller.enable,
               disabled |-> ret.disabled \ {int}]
    /\ UNCHANGED <<heap, live, trail, halted, sizeIn, binOut, loads, loaded, processes,
                   last_id, tf, mem, lock, stack, cpu, state, irq, timer, mutex, boot,
                   pagetable, sysreg>>

\* controller.disable(int); ret.disabled keeps the interrupts whose latest
\* call was disable
PicDisable(int) ==
    /\ controller' = Controller_disable(controller, int)
    /\ ret' = [op |-> "disable", int |-> int, before |-> controller.enable,
               disabled |-> ret.disabled \cup {int}]
    /\ UNCHANGED <<heap, live, trail, halted, sizeIn, binOut, loads, loaded, processes,
                   last_id, tf, mem, lock, stack, cpu, state, irq, timer, mutex, boot,
                   pagetable, sysreg>>

NextPic ==
    \/ \E int \in PicInts : PicEnable(int)
    \/ \E int \in PicInts : PicDisable(int)

SpecPic == InitPic /\ [][NextPic]_vars

\* C33: after disable(int) the interrupt is not enabled, also when it was
\* enabled before, and the enable state of every other interrupt is as it was
C33_DisableTurnsOff ==
    ret.op = "disable" =>
        /\ irq_idx(ret.int) \notin controller.enable
        /\ controller.enable \ {irq_idx(ret.int)} = ret.before \ {irq_idx(ret.int)}

-----------------------------------------------------------------------------
(* The top chunk and the backing region after a failed alloc               *)

\* C34: in every reachable state, also after an alloc that returned null,
\* top_start <= top_end, and every block alloc returned lies inside the
\* backing region [start, end)
C34_TopAndBlocksInRegion ==
    /\ heap.top_start <= heap.top_end
    /\ \A a \in live : HeapStart <= a.ptr /\ a.ptr + a.size <= HeapEnd

-----------------------------------------------------------------------------
(* Conservation of the backing region *)

\* the chunks on the free lists, as (bin, position, address, size)
BinnedChunks ==
    UNION {{<<b, i, heap.bins[b][i], ToInt(bin_to_size(b))>> : i \in 1..Len(heap.bins[b])} :
           b \in {c \in 0..LASTBIN : heap.bins[c] # <<>>}}

\* the live allocations, as (address, bin size)
LiveBlocks == {<<a.ptr, BinSize(a.size)>> : a \in live}

\* in how many of the live allocations (at their bin size), the chunks on the
\* free lists and the top chunk the 8 bytes at address x lie
CoverCount(x, blocks, chunks) ==
    Cardinality({a \in blocks : a[1] <= x /\ x < a[1] + a[2]})
    + Cardinality({c \in chunks : c[3] <= x /\ x < c[3] + c[4]})
    + (IF heap.top_start <= x /\ x < heap.top_end THEN 1 ELSE 0)

\* C35: every byte of the backing region is in exactly one of a live
\* allocation (rounded to its bin size), a single chunk on a free list, or
\* the top chunk: no byte is lost and none is counted twice. Every block, every
\* chunk and the top chunk start at a multiple of 8, so the bytes are counted
\* eight at a time.
C35_Conservation ==
    ~halted =>
        LET blocks == LiveBlocks
            chunks == BinnedChunks
        IN  /\ \A a \in blocks : a[1] % 8 = 0
            /\ \A c \in chunks : c[3] % 8 = 0
            /\ heap.top_start % 8 = 0 /\ heap.top_end % 8 = 0
            /\ \A k \in 0..(HeapUnits - 1) :
                   CoverCount(HeapStart + 8 * k, blocks, chunks) = 1

\* C35 witness: an allocation served from a chunk of a larger bin, whose
\* rest went back to the free lists, with another allocation live
C35_Witness ==
    /\ ret.op = "alloc" /\ ret.ptr # NULL /\ ret.align = 1
    /\ ret.bin <= LASTBIN /\ ret.bin > size_to_bin(U64(ret.size))
    /\ \E b \in 0..LASTBIN : heap.bins[b] # <<>>
    /\ Cardinality(live) >= 2

-----------------------------------------------------------------------------
(* A guard dropped while another guard of the same mutex is alive          *)

\* C36: while a guard on the mutex is alive its lock flag is true; when the
\* mutex was acquired again by the CPU that holds it, the drop of one guard
\* leaves the mutex locked for the guards that are still alive
C36_InnerDropKeepsLock ==
    (ret.op = "drop" /\ Len(mutex.guards) > 0)
        => /\ mutex.raw.lock
           /\ mutex.raw.owner = this

-----------------------------------------------------------------------------
(* The locks of the singletons on the one core: the boot in kmain, start() *)
(* and the exceptions taken from the guest, followed lock by lock. A       *)
(* routine is the sequence of its lock() calls and guard drops; Mutex::lock *)
(* spins on try_lock, so a lock() whose try_lock fails stays where it is.  *)

Mutexes == {"ALLOCATOR", "IRQ", "VMM", "SCHEDULER"}

lock_op(m) == <<"lock", m>>

drop_op(m) == <<"drop", m>>

\* ALLOCATOR.alloc / ALLOCATOR.initialize: the allocator behind its mutex
allocator_ops == <<lock_op("ALLOCATOR"), drop_op("ALLOCATOR")>>

\* VMM.mark_noncacheable: the guard pt lives to the end of the function
mark_noncacheable_ops == <<lock_op("VMM"), drop_op("VMM")>>

\* kmain up to SCHEDULER.start(): ALLOCATOR.initialize, IRQ.initialize,
\* VMM.initialize (the table is boxed under the VMM guard, then setup locks
\* again), SCHEDULER.initialize (Process::load builds the guest table, then
\* the scheduler is stored under its lock)
kmain_ops ==
    allocator_ops
    \o <<lock_op("IRQ"), drop_op("IRQ")>>
    \o <<lock_op("VMM")>> \o allocator_ops \o <<drop_op("VMM")>>
    \o <<lock_op("VMM"), drop_op("VMM")>>
    \o allocator_ops \o mark_noncacheable_ops
    \o <<lock_op("SCHEDULER"), drop_op("SCHEDULER")>>

\* GlobalScheduler::start: IRQ.register, then get_by_vmid(0), whose guard is
\* alive when start erets into the guest and is never dropped
start_ops == <<lock_op("IRQ"), drop_op("IRQ"), lock_op("SCHEDULER")>>

\* GuestPageTable::alloc: ALLOCATOR.alloc, then VMM.mark_noncacheable
GuestPageTable_alloc_ops == allocator_ops \o mark_noncacheable_ops

\* handle_lower_el_synchronous on a fault below GUEST_MAX_VM_SIZE: the guard
\* of get_by_vmid is dropped when the block is left, after vmap.alloc for a
\* page that is not mapped ("lazy") or at once for one that is ("mapped")
lower_el_ops(kind) ==
    <<lock_op("SCHEDULER")>>
    \o (IF kind = "lazy" THEN GuestPageTable_alloc_ops ELSE <<>>)
    \o <<drop_op("SCHEDULER")>>

\* handle_exception for an IRQ: IRQ.invoke keeps the guard while the handler runs
irq_ops == <<lock_op("IRQ"), drop_op("IRQ")>>

Routine(name) ==
    CASE name = "kmain" -> kmain_ops
      [] name = "start" -> start_ops
      [] name = "irq" -> irq_ops
      [] OTHER -> lower_el_ops(name)

\* exceptions taken from the guest
MaxLockTraps == 6

TrapKinds == {"lazy", "mapped", "irq"}

InitLocks ==
    /\ mutex = [raw |-> [m \in Mutexes |-> Mutex_new], guards |-> <<>>,
                routine |-> "kmain", pc |-> 1, traps |-> 0, acquired |-> 0]
    /\ ret = [op |-> "new"]
    /\ heap = <<>> /\ live = {} /\ trail = <<>> /\ halted = FALSE
    /\ IdleBin /\ IdleVm /\ IdleTrap /\ IdleExc /\ IdleCpu /\ IdleState /\ IdleIrq
    /\ IdlePic /\ IdleTimer /\ IdleBoot /\ IdlePt /\ IdleSys

\* the call the core is at, <<"none", "none">> between routines
AtOp ==
    IF mutex.routine # "guest" /\ mutex.pc <= Len(Routine(mutex.routine))
    THEN Routine(mutex.routine)[mutex.pc]
    ELSE <<"none", "none">>

\* the core is inside Mutex::lock
InLock == AtOp[1] = "lock"

\* Mutex::lock: one turn of the loop in which try_lock succeeds; a turn in
\* which it fails changes nothing
Acquire ==
    /\ InLock
    /\ \E r \in {RawMutex_try_lock(mutex.raw[AtOp[2]])} :
           /\ r.ok
           /\ mutex' = [mutex EXCEPT !.raw[AtOp[2]] = r.raw,
                                     !.guards = Append(@, AtOp[2]),
                                     !.pc = @ + 1,
                                     !.acquired = @ + 1]
    /\ ret' = [op |-> "lock", m |-> AtOp[2]]
    /\ UNCHANGED <<heap, live, trail, halted, sizeIn, binOut, loads, loaded, processes,
                   last_id, tf, mem, lock, stack, cpu, state, irq, controller, timer, boot,
                   pagetable, sysreg>>

\* the latest guard of the mutex leaves its scope
Release ==
    /\ AtOp[1] = "drop"
    /\ \E i \in DOMAIN mutex.guards :
           /\ mutex.guards[i] = AtOp[2]
           /\ \A j \in DOMAIN mutex.guards : mutex.guards[j] = AtOp[2] => j <= i
           /\ mutex' = [mutex EXCEPT !.raw[AtOp[2]] = RawMutex_unlock(@),
                                     !.guards = RemoveAt(@, i),
                                     !.pc = @ + 1]
    /\ ret' = [op |-> "drop", m |-> AtOp[2]]
    /\ UNCHANGED <<heap, live, trail, halted, sizeIn, binOut, loads, loaded, processes,
                   last_id, tf, mem, lock, stack, cpu, state, irq, controller, timer, boot,
                   pagetable, sysreg>>

\* the end of a routine: kmain calls start, start and the handlers eret
Leave ==
    /\ mutex.routine # "guest"
    /\ mutex.pc > Len(Routine(mutex.routine))
    /\ mutex' = [mutex EXCEPT !.routine = IF @ = "kmain" THEN "start" ELSE "guest",
                              !.pc = 1]
    /\ ret' = [op |-> "leave", m |-> mutex.routine]
    /\ UNCHANGED <<heap, live, trail, halted, sizeIn, binOut, loads, loaded, processes,
                   last_id, tf, mem, lock, stack, cpu, state, irq, controller, timer, boot,
                   pagetable, sysreg>>

\* an exception from the guest enters its handler
LockTrap(kind) ==
    /\ mutex.routine = "guest"
    /\ mutex.traps < MaxLockTraps
    /\ mutex' = [mutex EXCEPT !.routine = kind, !.pc = 1, !.traps = @ + 1]
    /\ ret' = [op |-> "trap", m |-> kind]
    /\ UNCHANGED <<heap, live, trail, halted, sizeIn, binOut, loads, loaded, processes,
                   last_id, tf, mem, lock, stack, cpu, state, irq, controller, timer, boot,
                   pagetable, sysreg>>

\* what the core does by itself, once it is in a routine
Run == Acquire \/ Release \/ Leave

NextLocks ==
    \/ Acquire
    \/ Release
    \/ Leave
    \/ \E kind \in TrapKinds : LockTrap(kind)

SpecLocks == InitLocks /\ [][NextLocks]_vars

\* the core keeps executing the routine it is in
SpecLocksLive == SpecLocks /\ WF_vars(Run)

\* the most lock() calls there are
MaxAcquired == Len(kmain_ops) + Len(start_ops) + MaxLockTraps * Len(lower_el_ops("lazy"))

\* C37: every Mutex::lock() returns: a core that is inside lock() leaves it
\* with the guard, also for the SCHEDULER lock of a handler while the guard
\* of start() is alive and for the ALLOCATOR and VMM locks of
\* GuestPageTable::alloc under the scheduler guard
C37_LockTerminates ==
    \A n \in 0..MaxAcquired :
        (InLock /\ mutex.acquired = n) ~> (mutex.acquired > n)

\* C37 witness: the handler of a lazy-paging fault is past its VMM lock, with
\* its own scheduler guard and the one of start() alive
C37_Witness ==
    /\ mutex.routine = "lazy"
    /\ ret = [op |-> "lock", m |-> "VMM"]
    /\ mutex.guards = <<"SCHEDULER", "SCHEDULER", "VMM">>

-----------------------------------------------------------------------------
(* handle_mmio at the two ends of the peripheral window *)

\* the bytes the access of handle_mmio covers: 1 << SAS bytes from fault_addr
mmio_bytes(fault_addr, iss) == fault_addr..(fault_addr + 2 ^ SAS(iss) - 1)

\* the memory looked at: 16 bytes from IO_BASE, and the 8 bytes before and
\* the 8 bytes from IO_BASE_END
EndWindow == (IO_BASE..(IO_BASE + 15)) \cup ((IO_BASE_END - 8)..(IO_BASE_END + 7))

\* fault addresses that handle_lower_el_synchronous passes on: the first
\* words of the window and the last addresses of it that are multiples of 8,
\* 4 and 2
EndAddrs == {IO_BASE, IO_BASE + 4, IO_BASE_END - 7, IO_BASE_END - 3, IO_BASE_END - 1}

InitMmioEnd ==
    /\ \E elr \in ElrValues, v \in RegValues :
           tf = [ELR |-> elr, VTTBR |-> U64(17 * PAGE_SIZE),
                 xn |-> [i \in 0..31 |-> IF i \in SRTs THEN v ELSE U64(i)]]
    /\ mem = [a \in EndWindow |-> 17 + (a % 16)]
    /\ ret = [op |-> "none", n |-> 0]
    /\ heap = Allocator_new(HeapStart, HeapEnd) /\ live = {} /\ trail = <<>>
    /\ halted = FALSE
    /\ IdleBin /\ IdleVm /\ IdleExc /\ IdleCpu /\ IdleState /\ IdleIrq /\ IdlePic /\ IdleTimer
    /\ IdleMutex /\ IdleBoot /\ IdlePt /\ IdleSys

NextMmioEnd == \E iss \in Isses, a \in EndAddrs : Mmio(iss, a)

SpecMmioEnd == InitMmioEnd /\ [][NextMmioEnd]_vars

-----------------------------------------------------------------------------
(* Process::load for images up to the size of the guest's memory, and the  *)
(* lazy allocations that follow in the loaded guest.                       *)

\* pages the read loop allocates: for two short images, and for an image
\* that fills [KERN_START_ADDR, GUEST_MAX_VM_SIZE) to its last byte (one page
\* per page of the image and one more for the read that returns 0)
LongImagePages == {1, 2, (GUEST_MAX_VM_SIZE - KERN_START_ADDR) \div PAGE_SIZE + 1}

\* pages of the allocator's region: room for the table, the pages below the
\* image and the image
ImageHeapPages == 4200

\* IPAs faulted on after the load: three pages above a short image, the last
\* guest page, the first address past guest memory
ImageFaultIPAs ==
    {KERN_START_ADDR + PAGE_SIZE, KERN_START_ADDR + 2 * PAGE_SIZE + 4096,
     KERN_START_ADDR + 3 * PAGE_SIZE, GUEST_MAX_VM_SIZE - 4096, GUEST_MAX_VM_SIZE}

InitImage ==
    /\ \E start \in VmHeapStarts :
           heap = Allocator_new(start, start + ImageHeapPages * PAGE_SIZE)
    /\ live = {}
    /\ ret = NoOp
    /\ trail = <<>>
    /\ halted = FALSE
    /\ loads = 0 /\ loaded = {} /\ processes = <<>> /\ last_id = 0
    /\ tf = NoTf
    /\ IdleBin /\ mem = <<>> /\ IdleExc /\ IdleCpu /\ IdleState /\ IdleIrq /\ IdlePic
    /\ IdleTimer /\ IdleMutex /\ IdleBoot /\ IdlePt /\ IdleSys

NextImage ==
    \/ \E n \in LongImagePages : loads = 0 /\ Load(TRUE, n, "ok")
    \/ \E p \in loaded : Add(p)
    \/ \E g \in 1..Len(processes), k \in Kinds, ipa \in ImageFaultIPAs :
           Fault(g, k, (ipa \div 4096) * 16)

SpecImage == InitImage /\ [][NextImage]_vars

\* C39: every valid L3 entry of a guest page table is for an IPA below
\* GUEST_MAX_VM_SIZE, whether Process::load made it, for an image of any
\* length, or a lazy allocation, and none is for an IPA in the peripheral
\* window
C39_EntriesBelowGuestMax ==
    \A p \in Guests : \A s \in DOMAIN p.vmap :
        is_valid(p.vmap[s])
            => /\ s * PAGE_SIZE < GUEST_MAX_VM_SIZE
               /\ ~(IO_BASE <= s * PAGE_SIZE /\ s * PAGE_SIZE < IO_BASE_END)

-----------------------------------------------------------------------------
(* traps.rs, mutex.rs: the double-fault counter over a sequence of          *)
(* exceptions, none of them taken while another is being handled.           *)

\* the last step was the return of a resolved exception
Resolved == ret.op = "exception" /\ ret.outcome \in {"lazy", "mmio", "irq"}

\* C40: after every exception that is resolved (lazy allocation, MMIO
\* emulation or IRQ dispatch) handle_exception has returned with the
\* double-fault counter back at 0 and without the "Double return" panic, and
\* every entry made while no invocation is on the stack finds the counter at 0
\* and does not panic with "Re-entrance detected"
C40_CounterBackAtZero ==
    /\ Resolved => ret.returned /\ lock = 0 /\ stack = <<>> /\ ~halted
    /\ (ret.op = "enter" /\ ret.depth = 0)
           => ret.before = 0 /\ ~ret.panicked /\ lock = 1 /\ ~halted

\* the third exception of a run is resolved by MMIO emulation after two
\* earlier exceptions were resolved, and the counter is back at 0
C40_Witness ==
    /\ Resolved /\ ret.outcome = "mmio" /\ ret.n = MaxExc
    /\ lock = 0 /\ ~halted

====
